---- MODULE Spec2Model ----
(***************************************************************************)
(* PiTrader: the request-resilience layer (circuit breaker, credit-window  *)
(* rate limiter), the TTL/LRU cache and the signal synthesizer, modelled   *)
(* from the Python sources.  Each component has its own state variables    *)
(* and its own specification; a component's actions leave the variables    *)
(* of the other components unchanged.                                      *)
(***************************************************************************)
EXTENDS Integers, Sequences, FiniteSets

VARIABLES
    \* ---- utils/decorators.py: CircuitBreaker ----
    state,          \* CircuitBreakerState.state: "closed" | "open" | "half-open"
    failures,       \* CircuitBreakerState.failures
    last_failure,   \* CircuitBreakerState.last_failure: <<>> (None) or <<t>>
    now,            \* datetime.now(), in seconds
    pc,             \* "idle", or "calling" while the wrapped function runs
    outcome,        \* how the last finished call through the wrapper ended
    op,             \* the operation of the last step
    \* ---- data/twelve_data.py: TwelveDataClient rate limiter ----
    request_times,  \* self._request_times: sequence of <<time, credits>>
    clock,          \* time.time(), in seconds
    recorded,       \* every <<time, credits>> ever appended to _request_times
    \* ---- utils/cache.py: TTLCache ----
    cache,          \* self._cache (OrderedDict): sequence of <<key, value, born>>,
                    \* oldest first; born is the time of the set that stored the value
    timestamps,     \* self._timestamps: function from the keys held to times
    ctime,          \* time.time(), in seconds
    cop,            \* the last cache operation and the branch it took,
                    \* <<name, key, branch>>
    ret,            \* its return value: <<>> for None, <<x>> for x
    last_set,       \* the last set while only gets and the passing of time have
                    \* followed it: <<key, value, time, value held before or 0>>,
                    \* or <<>>
    recency,        \* the keys held, least recently used first (set or successful get)
    \* ---- main.py: PiTrader._generate_signals ----
    gpc,            \* "init", "loop" (iterating over fundamentals), "returned", "raised"
    market,         \* the MarketContext argument: <<>> before the call, else <<record>>
    idx,            \* number of entries of fundamentals iterated so far
    cur,            \* the entry iterated last: its inputs, its score and what became of it
    signals,        \* the local list signals: sequence of SignalRecord
    saved,          \* the records passed to signals_store.save_signal
    \* ---- main.py: PiTrader.run_full_analysis ----
    rpc,            \* position in run_full_analysis: "idle", "market", "momentum",
                    \* "technical", "sentiment", "debug", "signals", "summary",
                    \* "except", "finally", "returned"
    test_mode,      \* self.test_mode
    debug_telegram, \* self.debug_telegram
    run_market,     \* market.market_score: <<>> before phase 1, else <<score>>
    results,        \* the list results of the analyzer loop in progress
    fundamentals,   \* the sorted list returned by analyze_watchlist
    top_momentum,   \* the symbols passed to analyze_batch
    technicals,     \* the sorted list returned by analyze_batch
    bullish_symbols,\* the symbols passed to analyze_multiple
    sentiments,     \* the list returned by analyze_multiple
    error_msg,      \* <<>> (None) or <<name of the exception caught>>
    outbox,         \* what was handed to telegram_bot, in order
    run_ret,        \* return value of run_full_analysis: <<>> until it returns
    calls,          \* the analyzer calls made so far in this run, in order
    \* ---- utils/decorators.py: retry_with_backoff ----
    wpc,            \* "idle", "trying" (inside the for loop), "returned", "raised"
    attempt,        \* the loop variable attempt
    delay,          \* the local delay
    last_exception, \* <<>> (None) or <<invocation number, exception class>>
    invocations,    \* how each invocation of func by the current call ended, in order
    slept,          \* the arguments of time.sleep in the current call, in order
    wout,           \* what the wrapper returned or raised: <<>> or
                    \* <<invocation number, class or "result">>
    wcalls,         \* number of calls of the wrapper so far
    \* ---- utils/decorators.py: one CircuitBreaker called from several threads ----
    cb_state,       \* self._state.state
    cb_failures,    \* self._state.failures
    cb_last_failure,\* self._state.last_failure: <<>> or <<t>>
    cb_now,         \* datetime.now()
    tpc,            \* per thread: "idle", "reset_none", "reset_now",
                    \* "reset_elapsed", "decided", "calling", "succ_state",
                    \* "fail_store", "fail_now", "fail_stamp", "fail_check",
                    \* "fail_open"
    loaded,         \* per thread: the value of failures read by "failures += 1"
    clock_read,     \* per thread: the value of datetime.now() it evaluated last
    trial,          \* per thread: the call in progress passed the wrapper's check
                    \* as the half-open trial (breaker open or half-open on entry)
    fails_done,     \* number of executions of "failures += 1" since the last
                    \* "failures = 0"
    conc_calls,     \* number of calls started so far
    \* ---- utils/cache.py: one TTLCache used from several threads ----
    lk_cache,       \* self._cache: sequence of <<key, value, born>>, oldest first
    lk_timestamps,  \* self._timestamps: sequence of <<key, time>>, in the order
                    \* the keys were inserted
    lk_lock,        \* self._lock: 0 when free, else the thread holding it
    lk_now,         \* time.time()
    lk_pc,          \* per thread: "idle" or the statement it is about to execute
    lk_job,         \* per thread: <<operation, key>> of the operation in progress
    lk_pending,     \* per thread: the keys the operation still has to delete
    lk_torn,        \* some operation found a key in one dict and not in the other
    lk_ops,         \* number of operations started so far
    \* ---- utils/cache.py: ttl_lru_cache ----
    m_cache,        \* the TTLCache of the decorated function: sequence of <<key, value, stamp>>
    m_now,          \* time.time(), in seconds
    m_op,           \* the last call through the wrapper: <<"call", key, invoked, result>>
    invalid_at,     \* pairs <<key, t>>: the last invocation for key, at t, returned invalid
    \* ---- main.py: main ----
    main_pc,        \* position in main: "none", "running" (in or between runs), "exited", "crashed"
    loop_mode,      \* args.loop
    runs,           \* number of runs main has started
    main_outbox,    \* what main itself handed to telegram_bot, in order
    \* ---- data/ollama_client.py: OllamaClient.analyze_sentiment ----
    o_cache,        \* the TTLCache of analyze_sentiment: sequence of <<text, result, 0>>
    o_last,         \* the last call: its text, the backend met, whether the cache served it, its outcome
    o_diag,         \* the arguments of the last _update_diagnostics: <<>> or <<used_fallback, json_ok>>
    \* ---- data/twelve_data.py: TwelveDataClient.get_quote, get_time_series ----
    td_cb,          \* the state of _twelve_data_cb: state, failures, last_failure (<<>> is None)
    td_now,         \* the wall clock, in seconds
    td_quotes,      \* the TTLCache of get_quote: sequence of <<symbol, result, 0>>
    td_last,        \* the last call of get_quote, get_time_series or
                    \* get_multiple_quotes and how it ended
    \* ---- analysis/sentiment.py: SentimentAnalyzer.analyze, _calculate_score ----
    news_score,     \* the SentimentScore _calculate_score has filled, <<>> or <<score>>: counts, articles_analyzed, total_score in tenths, label, is_valid
    sent_pc,        \* how the last call ended: none yet, TypeError (analyze), scored (_calculate_score)
    \* ---- storage/signals_store.py: SignalsStore, the file of one signal id ----
    sig_disk,       \* the file of the signal: absent, empty (opened for writing, nothing written yet), ok or corrupt
    sig_file,       \* the SignalRecord the file holds when it is ok: <<>> or <<record>>
    sig_now,        \* the date, in days
    sig_thr,        \* per thread, the call of the store it is in: pc, op, the record read, the record to write, ret
    \* ---- the decorated function called by two threads ----
    mw_cache,       \* the entries of the decorator's cache, least recently used first
    mw_thr          \* for each thread, where it is in the wrapper and what it has done

cbVars == <<state, failures, last_failure, now, pc, outcome, op>>
rlVars == <<request_times, clock, recorded>>
cacheVars == <<cache, timestamps, ctime, cop, ret, recency, last_set>>
synthVars == <<gpc, market, idx, cur, signals, saved>>
runVars == <<rpc, test_mode, debug_telegram, run_market, results, fundamentals,
             top_momentum, technicals, bullish_symbols, sentiments, error_msg,
             outbox, run_ret, calls>>

retryVars == <<wpc, attempt, delay, last_exception, invocations, slept, wout, wcalls>>

cbConcVars == <<cb_state, cb_failures, cb_last_failure, cb_now, tpc, loaded,
                clock_read, trial, fails_done, conc_calls>>

lockVars == <<lk_cache, lk_timestamps, lk_lock, lk_now, lk_pc, lk_job, lk_pending,
              lk_torn, lk_ops>>

memoVars == <<m_cache, m_now, m_op, invalid_at>>

mainVars == <<main_pc, loop_mode, runs, main_outbox>>

ollamaVars == <<o_cache, o_last, o_diag>>

tdVars == <<td_cb, td_now, td_quotes, td_last>>

sentVars == <<news_score, sent_pc>>

storeVars == <<sig_disk, sig_file, sig_now, sig_thr>>

memoConcVars == <<mw_cache, mw_thr>>

vars == <<cbVars, rlVars, cacheVars, synthVars, runVars, retryVars, cbConcVars,
          lockVars,
          memoVars,
          mainVars,
          ollamaVars,
          tdVars,
          sentVars,
          storeVars,
          memoConcVars>>

(***************************************************************************)
(* Circuit breaker (utils/decorators.py)                                   *)
(***************************************************************************)

\* CircuitBreaker(failure_threshold, recovery_timeout): the instance's parameters.
failure_threshold == 2
recovery_timeout == 2
\* The clock stops advancing at MaxTime.
MaxTime == 7

\* A variant of _should_attempt_reset with the comparison inverted.
should_attempt_reset_inverted ==
    IF last_failure = <<>> THEN TRUE
    ELSE now - last_failure[1] < recovery_timeout

\* A variant of _should_attempt_reset that also answers yes when exactly
\* recovery_timeout has elapsed.
should_attempt_reset_at_timeout ==
    IF last_failure = <<>> THEN TRUE
    ELSE now - last_failure[1] >= recovery_timeout

\* CircuitBreaker._should_attempt_reset
should_attempt_reset ==
    IF last_failure = <<>> THEN TRUE
    ELSE now - last_failure[1] > recovery_timeout

\* A variant of _on_success that closes the breaker but keeps the failure count.
on_success_keeps_count ==
    /\ state' = "closed"
    /\ UNCHANGED <<failures, last_failure>>

\* CircuitBreaker._on_success
on_success ==
    /\ failures' = 0
    /\ state' = "closed"
    /\ UNCHANGED last_failure

\* A variant of _on_failure that keeps the old timestamp when the failed call
\* was the half-open trial.
on_failure_stale_timestamp ==
    /\ failures' = failures + 1
    /\ last_failure' = IF state = "half-open" THEN last_failure ELSE <<now>>
    /\ state' = IF failures + 1 >= failure_threshold THEN "open" ELSE state

\* CircuitBreaker._on_failure
on_failure ==
    /\ failures' = failures + 1
    /\ last_failure' = <<now>>
    /\ state' = IF failures + 1 >= failure_threshold THEN "open" ELSE state

\* A variant of the wrapper that closes the breaker directly when the
\* recovery timeout has elapsed, without the half-open trial state.
Wrapper_SkipsHalfOpen ==
    /\ pc = "idle"
    /\ op' = "call"
    /\ pc' = IF state = "open" /\ ~should_attempt_reset THEN pc ELSE "calling"
    /\ state' = IF state = "open" /\ should_attempt_reset THEN "closed" ELSE state
    /\ outcome' = IF state = "open" /\ ~should_attempt_reset
                  THEN "CircuitBreakerOpenError" ELSE outcome
    /\ UNCHANGED <<failures, last_failure, now>>
    /\ UNCHANGED <<rlVars, cacheVars, synthVars, runVars, retryVars, cbConcVars, lockVars, memoVars, mainVars, ollamaVars, tdVars, sentVars, storeVars, memoConcVars>>

\* CircuitBreaker.__call__.wrapper, up to the invocation of the wrapped function:
\* an open breaker either becomes half-open or raises CircuitBreakerOpenError.
Wrapper ==
    /\ pc = "idle"
    /\ op' = "call"
    /\ IF state = "open"
       THEN IF should_attempt_reset
            THEN /\ state' = "half-open"
                 /\ pc' = "calling"
                 /\ UNCHANGED <<failures, last_failure, now, outcome>>
            ELSE /\ outcome' = "CircuitBreakerOpenError"
                 /\ UNCHANGED <<state, failures, last_failure, now, pc>>
       ELSE /\ pc' = "calling"
            /\ UNCHANGED <<state, failures, last_failure, now, outcome>>
    /\ UNCHANGED <<rlVars, cacheVars, synthVars, runVars, retryVars, cbConcVars, lockVars, memoVars, mainVars, ollamaVars, tdVars, sentVars, storeVars, memoConcVars>>

\* wrapper: func returned, _on_success, return result
FuncReturns ==
    /\ pc = "calling"
    /\ on_success
    /\ pc' = "idle"
    /\ outcome' = "returned"
    /\ op' = "return"
    /\ UNCHANGED now
    /\ UNCHANGED <<rlVars, cacheVars, synthVars, runVars, retryVars, cbConcVars, lockVars, memoVars, mainVars, ollamaVars, tdVars, sentVars, storeVars, memoConcVars>>

\* wrapper: func raised an exception of self.exceptions, _on_failure, re-raise
FuncRaises ==
    /\ pc = "calling"
    /\ on_failure
    /\ pc' = "idle"
    /\ outcome' = "raised"
    /\ op' = "raise"
    /\ UNCHANGED now
    /\ UNCHANGED <<rlVars, cacheVars, synthVars, runVars, retryVars, cbConcVars, lockVars, memoVars, mainVars, ollamaVars, tdVars, sentVars, storeVars, memoConcVars>>

\* wrapper: func raised an exception outside self.exceptions: no handler runs
FuncRaisesOther ==
    /\ pc = "calling"
    /\ pc' = "idle"
    /\ outcome' = "raised_other"
    /\ op' = "raise_other"
    /\ UNCHANGED <<state, failures, last_failure, now>>
    /\ UNCHANGED <<rlVars, cacheVars, synthVars, runVars, retryVars, cbConcVars, lockVars, memoVars, mainVars, ollamaVars, tdVars, sentVars, storeVars, memoConcVars>>

\* CircuitBreaker.reset: it can be called at any moment, also while a call
\* through the breaker is inside the wrapped function.
reset ==
    /\ state' = "closed"
    /\ failures' = 0
    /\ last_failure' = <<>>
    /\ op' = "reset"
    /\ UNCHANGED <<now, pc, outcome>>
    /\ UNCHANGED <<rlVars, cacheVars, synthVars, runVars, retryVars, cbConcVars, lockVars, memoVars, mainVars, ollamaVars, tdVars, sentVars, storeVars, memoConcVars>>

\* The wall clock advances, also while the wrapped function runs.
Tick ==
    /\ now < MaxTime
    /\ now' = now + 1
    /\ op' = "tick"
    /\ UNCHANGED <<state, failures, last_failure, pc, outcome>>
    /\ UNCHANGED <<rlVars, cacheVars, synthVars, runVars, retryVars, cbConcVars, lockVars, memoVars, mainVars, ollamaVars, tdVars, sentVars, storeVars, memoConcVars>>

\* The threads that call through one shared breaker.
Threads == {1, 2}

\* A thread that is in no call of the signal store.
IdleCall ==
    [pc |-> "idle", op |-> "none", arg |-> 0, before |-> <<>>, after |-> <<>>,
     raced |-> FALSE, ret |-> "none"]

\* A thread that is in no call of the decorated function.
IdleWrapper ==
    [pc |-> "idle", key |-> 0, invoked |-> FALSE, ret |-> "None",
     overlap |-> FALSE, after_store |-> FALSE]

\* CircuitBreaker.__init__: CircuitBreakerState(); TwelveDataClient.__init__
Init ==
    /\ state = "closed"
    /\ failures = 0
    /\ last_failure = <<>>
    /\ now = 0
    /\ pc = "idle"
    /\ outcome = "none"
    /\ op = "init"
    /\ request_times = <<>>
    /\ clock = 0
    /\ recorded = <<>>
    /\ cache = <<>>
    /\ timestamps = <<>>
    /\ ctime = 0
    /\ cop = <<"init", 0, "">>
    /\ ret = <<>>
    /\ last_set = <<>>
    /\ recency = <<>>
    /\ gpc = "init"
    /\ market = <<>>
    /\ idx = 0
    /\ cur = <<>>
    /\ signals = <<>>
    /\ saved = <<>>
    /\ rpc = "idle"
    /\ test_mode = FALSE
    /\ debug_telegram = FALSE
    /\ run_market = <<>>
    /\ results = <<>>
    /\ fundamentals = <<>>
    /\ top_momentum = <<>>
    /\ technicals = <<>>
    /\ bullish_symbols = <<>>
    /\ sentiments = <<>>
    /\ error_msg = <<>>
    /\ outbox = <<>>
    /\ run_ret = <<>>
    /\ calls = <<>>
    /\ wpc = "idle"
    /\ attempt = 0
    /\ delay = 0
    /\ last_exception = <<>>
    /\ invocations = <<>>
    /\ slept = <<>>
    /\ wout = <<>>
    /\ wcalls = 0
    /\ cb_state = "closed"
    /\ cb_failures = 0
    /\ cb_last_failure = <<>>
    /\ cb_now = 0
    /\ tpc = [t \in Threads |-> "idle"]
    /\ loaded = [t \in Threads |-> 0]
    /\ clock_read = [t \in Threads |-> 0]
    /\ trial = [t \in Threads |-> FALSE]
    /\ fails_done = 0
    /\ conc_calls = 0
    /\ lk_cache = <<>>
    /\ lk_timestamps = <<>>
    /\ lk_lock = 0
    /\ lk_now = 0
    /\ lk_pc = [t \in Threads |-> "idle"]
    /\ lk_job = [t \in Threads |-> <<"none", 0>>]
    /\ lk_pending = [t \in Threads |-> <<>>]
    /\ lk_torn = FALSE
    /\ lk_ops = 0
    /\ m_cache = <<>>
    /\ m_now = 0
    /\ m_op = <<"none", 0, FALSE, "None">>
    /\ invalid_at = {}
    /\ main_pc = "none"
    /\ loop_mode = FALSE
    /\ runs = 0
    /\ main_outbox = <<>>
    /\ o_cache = <<>>
    /\ o_last = <<>>
    /\ o_diag = <<>>
    /\ td_cb = [state |-> "closed", failures |-> 0, last_failure |-> <<>>]
    /\ td_now = 0
    /\ td_quotes = <<>>
    /\ td_last = <<>>
    /\ news_score = <<>>
    /\ sent_pc = "none"
    /\ sig_disk = "absent"
    /\ sig_file = <<>>
    /\ sig_now = 0
    /\ sig_thr = [t \in Threads |-> IdleCall]
    /\ mw_cache = <<>>
    /\ mw_thr = [t \in Threads |-> IdleWrapper]

NextCB ==
    \/ Wrapper
    \/ FuncReturns
    \/ FuncRaises
    \/ FuncRaisesOther
    \/ reset
    \/ Tick

SpecCB == Init /\ [][NextCB]_vars

\* ---- Claims about the circuit breaker ----

\* C1: while the breaker is open and less than recovery_timeout has elapsed
\* since the last failure, a call through the breaker raises
\* CircuitBreakerOpenError and the wrapped function is not invoked (the call
\* never enters the "calling" position and the breaker stays open).
C1_OpenFailsFast ==
    [][(/\ pc = "idle"
        /\ state = "open"
        /\ last_failure # <<>>
        /\ now - last_failure[1] < recovery_timeout
        /\ op' = "call")
       => (/\ outcome' = "CircuitBreakerOpenError"
           /\ pc' = "idle"
           /\ state' = "open")]_vars

\* A call has just been rejected by the open breaker inside the timeout.
C1_Witness ==
    /\ op = "call"
    /\ pc = "idle"
    /\ state = "open"
    /\ outcome = "CircuitBreakerOpenError"
    /\ last_failure # <<>>
    /\ now - last_failure[1] < recovery_timeout

\* C2: once the breaker is half-open and its trial call has finished (with
\* whatever outcome), no further call reaches the wrapped function while the
\* state is still half-open.
C2_SingleTrial ==
    [][~(/\ state = "half-open"
         /\ pc = "idle"
         /\ op' = "call"
         /\ pc' = "calling")]_vars

AllowedTransitions ==
    { <<"closed", "open">>, <<"open", "half-open">>,
      <<"half-open", "closed">>, <<"half-open", "open">> }

\* C3: apart from manual reset(), the breaker state changes only by
\* closed->open, open->half-open, half-open->closed or half-open->open.
C3_Transitions ==
    [][op' # "reset" =>
         (state' = state \/ <<state, state'>> \in AllowedTransitions)]_vars

\* The breaker reopened after a failed half-open trial: the failure count
\* exceeds the threshold only when a trial call failed after the breaker opened.
C3_Witness ==
    /\ state = "open"
    /\ op = "raise"
    /\ failures > failure_threshold

\* C14: a successful call sets the failure counter to 0 and the state to
\* closed; a failed call in closed state adds one to the counter; a closed
\* breaker always counts fewer than failure_threshold failures, and it opens
\* exactly on the failed call that brings the counter to failure_threshold.
C14_OpensAtThreshold ==
    [][/\ (op' = "return" => (failures' = 0 /\ state' = "closed"))
       /\ ((state = "closed" /\ op' = "raise") => failures' = failures + 1)
       /\ (state = "closed" => failures < failure_threshold)
       /\ ((state = "closed" /\ state' = "open")
             <=> (state = "closed" /\ op' = "raise"
                  /\ failures + 1 = failure_threshold))]_vars

\* The closed breaker has just opened on the failed call that brought the
\* counter to failure_threshold.
C14_Witness ==
    /\ state = "open"
    /\ op = "raise"
    /\ failures = failure_threshold
    /\ last_failure = <<now>>

\* C15 as stated: a call through an open breaker when the time elapsed since
\* the last failure is not less than recovery_timeout, exactly equal included,
\* moves the breaker to half-open and invokes the wrapped function.
C15_HalfOpenFromTimeout ==
    [][(/\ pc = "idle"
        /\ state = "open"
        /\ last_failure # <<>>
        /\ now - last_failure[1] >= recovery_timeout
        /\ op' = "call")
       => (state' = "half-open" /\ pc' = "calling")]_vars

\* C15, amended: a call through an open breaker when strictly more than
\* recovery_timeout has elapsed since the last failure moves the breaker to
\* half-open and invokes the wrapped function; when exactly recovery_timeout has
\* elapsed the call still fails fast and the breaker stays open.
C15_HalfOpenAfterTimeout ==
    [][/\ (/\ pc = "idle"
           /\ state = "open"
           /\ last_failure # <<>>
           /\ now - last_failure[1] > recovery_timeout
           /\ op' = "call")
          => (state' = "half-open" /\ pc' = "calling")
       /\ (/\ pc = "idle"
           /\ state = "open"
           /\ last_failure # <<>>
           /\ now - last_failure[1] = recovery_timeout
           /\ op' = "call")
          => (/\ outcome' = "CircuitBreakerOpenError"
              /\ pc' = "idle"
              /\ state' = "open")]_vars

\* A call made more than recovery_timeout after the last failure has just
\* moved the open breaker to half-open and is invoking the wrapped function.
C15_Witness ==
    /\ op = "call"
    /\ pc = "calling"
    /\ state = "half-open"
    /\ last_failure # <<>>
    /\ now - last_failure[1] > recovery_timeout

\* C16: when the half-open trial call fails with an exception of the breaker's
\* set, the breaker is open again and last_failure is the time of that failure;
\* a call made after such a failed trial while no more than recovery_timeout has
\* elapsed since it fails fast without invoking the wrapped function.
C16_FailedTrialReopens ==
    [][/\ (state = "half-open" /\ op' = "raise")
          => (state' = "open" /\ last_failure' = <<now'>>)
       /\ (/\ state = "open"
           /\ failures > failure_threshold
           /\ pc = "idle"
           /\ now - last_failure[1] <= recovery_timeout
           /\ op' = "call")
          => (/\ outcome' = "CircuitBreakerOpenError"
              /\ pc' = "idle"
              /\ state' = "open")]_vars

\* After a failed half-open trial reopened the breaker, a call made within
\* recovery_timeout of that failure was rejected.
C16_Witness ==
    /\ state = "open"
    /\ failures > failure_threshold
    /\ op = "call"
    /\ pc = "idle"
    /\ outcome = "CircuitBreakerOpenError"
    /\ now > last_failure[1]
    /\ now - last_failure[1] <= recovery_timeout

(***************************************************************************)
(* Credit-window rate limiter (data/twelve_data.py)                        *)
(***************************************************************************)

\* config.twelve_data.requests_per_minute
requests_per_minute == 8
\* config.twelve_data.request_delay (seconds)
request_delay == 8
\* the length of the sliding window of _enforce_rate_limit (seconds)
WindowSeconds == 60
\* the safety margin added to the wait of _enforce_rate_limit (seconds)
MarginSeconds == 2
\* Largest credit cost of one request, number of requests and last arrival time.
MaxCredits == 4
MaxRequests == 4
MaxClock == 20

RECURSIVE SumCredits(_)
\* sum(c for _, c in entries)
SumCredits(entries) ==
    IF entries = <<>> THEN 0
    ELSE entries[1][2] + SumCredits(Tail(entries))

\* [(t, c) for t, c in entries if t_now - t < 60]
Prune(entries, t_now) ==
    SelectSeq(entries, LAMBDA e : t_now - e[1] < WindowSeconds)

\* The time at which _enforce_rate_limit passes step 3: after the sleep until
\* the oldest entry has aged out when the credits would exceed the cap.
AfterCapWait(entries, t_now, credits_used) ==
    IF /\ SumCredits(entries) + credits_used > requests_per_minute
       /\ entries # <<>>
       /\ WindowSeconds - (t_now - entries[1][1]) + MarginSeconds > 0
    THEN t_now + (WindowSeconds - (t_now - entries[1][1]) + MarginSeconds)
    ELSE t_now

\* A variant of step 4 that never sleeps.
AfterMinDelay_no_sleep(entries, t_now) == t_now

\* The time at which _enforce_rate_limit appends: after the sleep that keeps
\* the minimum delay since the last recorded request.
AfterMinDelay(entries, t_now) ==
    IF entries # <<>> /\ t_now - entries[Len(entries)][1] < request_delay
    THEN t_now + (request_delay - (t_now - entries[Len(entries)][1]))
    ELSE t_now

\* TwelveDataClient._enforce_rate_limit(credits_used)
enforce_rate_limit(credits_used) ==
    LET pruned == Prune(request_times, clock)
        t1 == AfterCapWait(pruned, clock, credits_used)
        kept == IF t1 = clock THEN pruned ELSE Prune(pruned, t1)
        t2 == AfterMinDelay(kept, t1)
    IN /\ Len(recorded) < MaxRequests
       /\ request_times' = Append(kept, <<t2, credits_used>>)
       /\ recorded' = Append(recorded, <<t2, credits_used>>)
       /\ clock' = t2
       /\ UNCHANGED <<cbVars, cacheVars, synthVars, runVars, retryVars, cbConcVars, lockVars, memoVars, mainVars, ollamaVars, tdVars, sentVars, storeVars, memoConcVars>>

\* Time passes between two requests of the single-threaded caller.
Elapse ==
    /\ clock < MaxClock
    /\ clock' = clock + 1
    /\ UNCHANGED <<request_times, recorded>>
    /\ UNCHANGED <<cbVars, cacheVars, synthVars, runVars, retryVars, cbConcVars, lockVars, memoVars, mainVars, ollamaVars, tdVars, sentVars, storeVars, memoConcVars>>

NextRL ==
    \/ \E credits_used \in 1..MaxCredits : enforce_rate_limit(credits_used)
    \/ Elapse

SpecRL == Init /\ [][NextRL]_vars

\* ---- Claims about the rate limiter ----

\* The credits recorded in the 60-second window that ends at time t.
CreditsInWindow(t) ==
    SumCredits(SelectSeq(recorded,
        LAMBDA e : e[1] <= t /\ t - e[1] < WindowSeconds))

\* C4: the credits of the calls recorded inside any rolling 60-second
\* window never exceed requests_per_minute.
C4_WindowCap ==
    \A i \in 1..Len(recorded) :
        CreditsInWindow(recorded[i][1]) <= requests_per_minute

\* C23: with a single-threaded caller, the recorded times of any two
\* consecutive calls that passed _enforce_rate_limit differ by at least
\* request_delay (whether or not the earlier one is still inside the window).
C23_MinDelay ==
    /\ \A i \in 1..(Len(recorded) - 1) :
           recorded[i + 1][1] - recorded[i][1] >= request_delay
    /\ \A i \in 1..(Len(request_times) - 1) :
           request_times[i + 1][1] - request_times[i][1] >= request_delay

\* Four calls are recorded exactly request_delay apart, the last one at a time
\* the caller can only have reached by sleeping in _enforce_rate_limit.
C23_Witness ==
    /\ Len(recorded) = MaxRequests
    /\ \A i \in 1..(Len(recorded) - 1) :
           recorded[i + 1][1] - recorded[i][1] = request_delay
    /\ recorded[Len(recorded)][1] > MaxClock
    /\ clock = recorded[Len(recorded)][1]

(***************************************************************************)
(* TTL/LRU cache (utils/cache.py)                                          *)
(***************************************************************************)

\* TTLCache(maxsize, ttl): the instance's parameters.
maxsize == 2
ttl == 1
\* Keys 1..NumKeys; the clock stops at MaxCacheTime.
NumKeys == 3
MaxCacheTime == 3

KeySet == 1..NumKeys
\* The values passed to set: two that differ.
ValueSet == {1, 2}

\* the keys of an OrderedDict
KeysOf(c) == { c[i][1] : i \in DOMAIN c }

\* self._cache[key]
EntryOf(c, key) == c[CHOOSE i \in DOMAIN c : c[i][1] = key]

\* del d[key], for the OrderedDict and for the timestamps
DelEntry(c, key) == SelectSeq(c, LAMBDA e : e[1] # key)
DelStamp(ts, key) == [k \in DOMAIN ts \ {key} |-> ts[k]]

\* OrderedDict.move_to_end(key)
move_to_end(c, key) == Append(DelEntry(c, key), EntryOf(c, key))

\* self._cache[key] = value: a key already held keeps its position
Assign(c, key, value, born) ==
    IF key \in KeysOf(c)
    THEN [i \in DOMAIN c |-> IF c[i][1] = key THEN <<key, value, born>> ELSE c[i]]
    ELSE Append(c, <<key, value, born>>)

RECURSIVE EvictWhileFull(_)
\* set: while len(self._cache) >= self.maxsize: delete next(iter(self._cache))
EvictWhileFull(c) ==
    IF Len(c) >= maxsize /\ c # <<>> THEN EvictWhileFull(Tail(c)) ELSE c

\* The use order after an operation: the keys still held keep their order and
\* the key used, if any, becomes the most recently used.
Used(order, held, used) ==
    LET rest == SelectSeq(order, LAMBDA k : k \in held /\ k \notin used)
    IN IF used = {} THEN rest ELSE Append(rest, CHOOSE k \in used : TRUE)

\* A variant of get that returns the entry without the expiry check.
get_no_expiry(key) ==
    /\ IF key \notin KeysOf(cache)
       THEN /\ cop' = <<"get", key, "miss">>
            /\ ret' = <<>>
            /\ UNCHANGED <<cache, timestamps, recency>>
       ELSE /\ cop' = <<"get", key, "hit">>
            /\ cache' = move_to_end(cache, key)
            /\ ret' = <<EntryOf(cache, key)[2]>>
            /\ recency' = Used(recency, KeysOf(cache), {key})
            /\ UNCHANGED timestamps
    /\ UNCHANGED <<ctime, last_set>>
    /\ UNCHANGED <<cbVars, rlVars, synthVars, runVars, retryVars, cbConcVars, lockVars, memoVars, mainVars, ollamaVars, tdVars, sentVars, storeVars, memoConcVars>>

\* A variant of get that leaves the position of the entry as it is on a hit.
get_no_move(key) ==
    /\ IF key \notin KeysOf(cache)
       THEN /\ cop' = <<"get", key, "miss">>
            /\ ret' = <<>>
            /\ UNCHANGED <<cache, timestamps, recency>>
       ELSE IF ctime - timestamps[key] > ttl
       THEN /\ cop' = <<"get", key, "expired">>
            /\ cache' = DelEntry(cache, key)
            /\ timestamps' = DelStamp(timestamps, key)
            /\ ret' = <<>>
            /\ recency' = Used(recency, KeysOf(cache) \ {key}, {})
       ELSE /\ cop' = <<"get", key, "hit">>
            /\ ret' = <<EntryOf(cache, key)[2]>>
            /\ recency' = Used(recency, KeysOf(cache), {key})
            /\ UNCHANGED <<cache, timestamps>>
    /\ UNCHANGED <<ctime, last_set>>
    /\ UNCHANGED <<cbVars, rlVars, synthVars, runVars, retryVars, cbConcVars, lockVars, memoVars, mainVars, ollamaVars, tdVars, sentVars, storeVars, memoConcVars>>

\* A variant of get that treats an entry as expired once ttl has elapsed.
get_expires_at_ttl(key) ==
    /\ IF key \notin KeysOf(cache)
       THEN /\ cop' = <<"get", key, "miss">>
            /\ ret' = <<>>
            /\ UNCHANGED <<cache, timestamps, recency>>
       ELSE IF ctime - timestamps[key] >= ttl
       THEN /\ cop' = <<"get", key, "expired">>
            /\ cache' = DelEntry(cache, key)
            /\ timestamps' = DelStamp(timestamps, key)
            /\ ret' = <<>>
            /\ recency' = Used(recency, KeysOf(cache) \ {key}, {})
       ELSE /\ cop' = <<"get", key, "hit">>
            /\ cache' = move_to_end(cache, key)
            /\ ret' = <<EntryOf(cache, key)[2]>>
            /\ recency' = Used(recency, KeysOf(cache), {key})
            /\ UNCHANGED timestamps
    /\ UNCHANGED <<ctime, last_set>>
    /\ UNCHANGED <<cbVars, rlVars, synthVars, runVars, retryVars, cbConcVars, lockVars, memoVars, mainVars, ollamaVars, tdVars, sentVars, storeVars, memoConcVars>>

\* TTLCache.get(key)
get(key) ==
    /\ IF key \notin KeysOf(cache)
       THEN /\ cop' = <<"get", key, "miss">>
            /\ ret' = <<>>
            /\ UNCHANGED <<cache, timestamps, recency>>
       ELSE IF ctime - timestamps[key] > ttl
       THEN /\ cop' = <<"get", key, "expired">>
            /\ cache' = DelEntry(cache, key)
            /\ timestamps' = DelStamp(timestamps, key)
            /\ ret' = <<>>
            /\ recency' = Used(recency, KeysOf(cache) \ {key}, {})
       ELSE /\ cop' = <<"get", key, "hit">>
            /\ cache' = move_to_end(cache, key)
            /\ ret' = <<EntryOf(cache, key)[2]>>
            /\ recency' = Used(recency, KeysOf(cache), {key})
            /\ UNCHANGED timestamps
    /\ UNCHANGED <<ctime, last_set>>
    /\ UNCHANGED <<cbVars, rlVars, synthVars, runVars, retryVars, cbConcVars, lockVars, memoVars, mainVars, ollamaVars, tdVars, sentVars, storeVars, memoConcVars>>

\* A variant of set without the eviction loop.
set_no_evict(key, value) ==
    /\ cop' = <<"set", key, IF Len(cache) < maxsize THEN "room"
                            ELSE IF key \in KeysOf(cache) THEN "full_held"
                            ELSE "full_new">>
    /\ cache' = move_to_end(Assign(cache, key, value, ctime), key)
    /\ timestamps' = [k \in KeysOf(cache) \cup {key} |->
                         IF k = key THEN ctime ELSE timestamps[k]]
    /\ ret' = <<>>
    /\ recency' = Used(recency, KeysOf(cache) \cup {key}, {key})
    /\ last_set' = <<key, value, ctime,
                     IF key \in KeysOf(cache) THEN EntryOf(cache, key)[2] ELSE 0>>
    /\ UNCHANGED ctime
    /\ UNCHANGED <<cbVars, rlVars, synthVars, runVars, retryVars, cbConcVars, lockVars, memoVars, mainVars, ollamaVars, tdVars, sentVars, storeVars, memoConcVars>>

\* TTLCache.set(key, value)
set(key, value) ==
    LET kept == EvictWhileFull(cache)
        stamps == [k \in KeysOf(kept) |-> timestamps[k]]
        stored == Assign(kept, key, value, ctime)
    IN /\ cop' = <<"set", key, IF Len(cache) < maxsize THEN "room"
                               ELSE IF key \in KeysOf(cache) THEN "full_held"
                               ELSE "full_new">>
       /\ cache' = move_to_end(stored, key)
       /\ timestamps' = [k \in KeysOf(kept) \cup {key} |->
                            IF k = key THEN ctime ELSE stamps[k]]
       /\ ret' = <<>>
       /\ recency' = Used(recency, KeysOf(kept) \cup {key}, {key})
       /\ last_set' = <<key, value, ctime,
                        IF key \in KeysOf(cache) THEN EntryOf(cache, key)[2] ELSE 0>>
       /\ UNCHANGED ctime
       /\ UNCHANGED <<cbVars, rlVars, synthVars, runVars, retryVars, cbConcVars, lockVars, memoVars, mainVars, ollamaVars, tdVars, sentVars, storeVars, memoConcVars>>

\* TTLCache.delete(key)
delete(key) ==
    /\ cop' = <<"delete", key, "">>
    /\ IF key \in KeysOf(cache)
       THEN /\ cache' = DelEntry(cache, key)
            /\ timestamps' = DelStamp(timestamps, key)
            /\ ret' = <<TRUE>>
            /\ recency' = Used(recency, KeysOf(cache) \ {key}, {})
       ELSE /\ ret' = <<FALSE>>
            /\ UNCHANGED <<cache, timestamps, recency>>
    /\ last_set' = <<>>
    /\ UNCHANGED ctime
    /\ UNCHANGED <<cbVars, rlVars, synthVars, runVars, retryVars, cbConcVars, lockVars, memoVars, mainVars, ollamaVars, tdVars, sentVars, storeVars, memoConcVars>>

\* TTLCache.clear
clear ==
    /\ cop' = <<"clear", 0, "">>
    /\ cache' = <<>>
    /\ timestamps' = <<>>
    /\ ret' = <<>>
    /\ recency' = <<>>
    /\ last_set' = <<>>
    /\ UNCHANGED ctime
    /\ UNCHANGED <<cbVars, rlVars, synthVars, runVars, retryVars, cbConcVars, lockVars, memoVars, mainVars, ollamaVars, tdVars, sentVars, storeVars, memoConcVars>>

\* TTLCache.cleanup_expired
cleanup_expired ==
    LET expired == { k \in DOMAIN timestamps : ctime - timestamps[k] > ttl }
    IN /\ cop' = <<"cleanup_expired", 0, "">>
       /\ cache' = SelectSeq(cache, LAMBDA e : e[1] \notin expired)
       /\ timestamps' = [k \in DOMAIN timestamps \ expired |-> timestamps[k]]
       /\ ret' = <<Cardinality(expired)>>
       /\ recency' = Used(recency, KeysOf(cache) \ expired, {})
       /\ last_set' = <<>>
       /\ UNCHANGED ctime
       /\ UNCHANGED <<cbVars, rlVars, synthVars, runVars, retryVars, cbConcVars, lockVars, memoVars, mainVars, ollamaVars, tdVars, sentVars, storeVars, memoConcVars>>

\* The clock of the cache advances.
Advance ==
    /\ ctime < MaxCacheTime
    /\ ctime' = ctime + 1
    /\ cop' = <<"advance", 0, "">>
    /\ UNCHANGED <<cache, timestamps, ret, recency, last_set>>
    /\ UNCHANGED <<cbVars, rlVars, synthVars, runVars, retryVars, cbConcVars, lockVars, memoVars, mainVars, ollamaVars, tdVars, sentVars, storeVars, memoConcVars>>

NextCache ==
    \/ \E key \in KeySet : get(key)
    \/ \E key \in KeySet, value \in ValueSet : set(key, value)
    \/ \E key \in KeySet : delete(key)
    \/ clear
    \/ cleanup_expired
    \/ Advance

SpecCache == Init /\ [][NextCache]_vars

\* ---- Claims about the cache ----

\* C5: get(key) never returns a value that was inserted more than ttl before
\* the current time; a get on an entry with now - insertion_time > ttl returns
\* None and removes the entry (value and timestamp) from the cache.
C5_NoStaleGet ==
    [][\A key \in KeySet :
         (cop'[1] = "get" /\ cop'[2] = key) =>
            /\ ret' # <<>> =>
                 /\ key \in KeysOf(cache)
                 /\ ret'[1] = EntryOf(cache, key)[2]
                 /\ ctime - EntryOf(cache, key)[3] <= ttl
            /\ (key \in KeysOf(cache) /\ ctime - EntryOf(cache, key)[3] > ttl) =>
                 /\ ret' = <<>>
                 /\ key \notin KeysOf(cache')
                 /\ key \notin DOMAIN timestamps']_vars

\* A get has just found an expired entry and removed it, other entries remaining.
C5_Witness ==
    /\ cop[1] = "get"
    /\ cop[3] = "expired"
    /\ ret = <<>>
    /\ cop[2] \notin KeysOf(cache)
    /\ cache # <<>>

\* C6: when the cache holds maxsize entries and set is called with a key not
\* yet present, exactly one entry is removed, the least recently used one
\* (a successful get and a set both count as a use), and all other entries
\* remain with their value and timestamp.
C6_EvictsLRU ==
    [][\A key \in KeySet :
         (/\ cop'[1] = "set"
          /\ cop'[2] = key
          /\ Len(cache) = maxsize
          /\ key \notin KeysOf(cache)) =>
            /\ KeysOf(cache') = (KeysOf(cache) \ {recency[1]}) \cup {key}
            /\ DOMAIN timestamps' = KeysOf(cache')
            /\ \A k \in KeysOf(cache) \ {recency[1]} :
                   /\ EntryOf(cache', k) = EntryOf(cache, k)
                   /\ timestamps'[k] = timestamps[k]]_vars

\* A set of a new key on a full cache has just evicted an entry while an
\* entry inserted earlier than the new one survives at the oldest position.
C6_Witness ==
    /\ cop[1] = "set"
    /\ cop[3] = "full_new"
    /\ Len(cache) = maxsize
    /\ cache[Len(cache)][1] = cop[2]
    /\ cache[1][3] < cache[Len(cache)][3]

\* C34: set on a key that is already present removes no other key, also when
\* the cache is at capacity: the keys are the same afterwards, the key is the
\* most recently used entry with the new value and the current time, and
\* every other entry keeps its value and timestamp.
C34_UpdateKeepsOthers ==
    [][\A key \in KeySet :
         (/\ cop'[1] = "set"
          /\ cop'[2] = key
          /\ key \in KeysOf(cache)) =>
            /\ KeysOf(cache') = KeysOf(cache)
            /\ cache'[Len(cache')][1] = key
            /\ timestamps'[key] = ctime
            /\ \A k \in KeysOf(cache) \ {key} :
                   /\ EntryOf(cache', k) = EntryOf(cache, k)
                   /\ timestamps'[k] = timestamps[k]]_vars

\* C19: the cache never holds more than maxsize entries: at every moment the
\* number of entries and the number of timestamps are at most maxsize, every
\* key is held once, and the values and the timestamps have the same keys.
C19_SizeBounded ==
    /\ Len(cache) <= maxsize
    /\ Cardinality(KeysOf(cache)) = Len(cache)
    /\ Cardinality(DOMAIN timestamps) <= maxsize
    /\ DOMAIN timestamps = KeysOf(cache)

\* A set of a key not held has just been applied to a cache that held maxsize
\* entries, and the cache holds maxsize entries, the new key among them.
C19_Witness ==
    /\ cop[1] = "set"
    /\ cop[3] = "full_new"
    /\ cop[2] \in KeysOf(cache)
    /\ Len(cache) = maxsize
    /\ Cardinality(DOMAIN timestamps) = maxsize

\* C20: set(key, value) stores the value it is given, stamped with the time
\* of the call, whatever the key held before; the passing of time alone
\* changes neither the entries nor their stamps; a get(key) that follows the
\* set(key, value), with nothing but gets and the passing of time in between,
\* returns that value while at most ttl has elapsed since the set (exactly ttl
\* included) and returns None once more than ttl has elapsed; and any get on
\* a key that is held returns the stored value or None by the same test.
C20_SetThenGet ==
    [][\A key \in KeySet :
         /\ (cop'[1] = "set" /\ cop'[2] = key) =>
               /\ last_set' # <<>>
               /\ last_set'[1] = key
               /\ last_set'[2] \in ValueSet
               /\ last_set'[3] = ctime
               /\ key \in KeysOf(cache')
               /\ EntryOf(cache', key) = <<key, last_set'[2], ctime>>
               /\ timestamps'[key] = ctime
               /\ ctime' = ctime
         /\ cop'[1] = "advance" =>
               /\ cache' = cache
               /\ timestamps' = timestamps
         /\ (cop'[1] = "get" /\ cop'[2] = key /\ last_set # <<>> /\ last_set[1] = key) =>
               IF ctime - last_set[3] <= ttl
               THEN ret' = <<last_set[2]>>
               ELSE ret' = <<>>
         /\ (cop'[1] = "get" /\ cop'[2] = key /\ key \in KeysOf(cache)) =>
               /\ timestamps[key] = EntryOf(cache, key)[3]
               /\ IF ctime - EntryOf(cache, key)[3] <= ttl
                  THEN ret' = <<EntryOf(cache, key)[2]>>
                  ELSE ret' = <<>>]_vars

\* A set has replaced the value a key held by a different one, exactly ttl
\* has passed with no other operation, and the get of the key has just
\* returned the value that set was given.
C20_Witness ==
    /\ cop[1] = "get"
    /\ cop[3] = "hit"
    /\ last_set # <<>>
    /\ last_set[1] = cop[2]
    /\ last_set[4] # 0
    /\ last_set[4] # last_set[2]
    /\ ret = <<last_set[2]>>
    /\ ctime - last_set[3] = ttl

(***************************************************************************)
(* Signal synthesizer (main.py, PiTrader._generate_signals)                *)
(*                                                                         *)
(* Sub-scores are in tenths of a point; combined scores are in twelfths of *)
(* a point, since (x / 3) * 2.5 = 10x / 12 and (m + 1) * 1.25 =            *)
(* 15(m + 1) / 12.                                                         *)
(*                                                                         *)
(* The arguments are those run_full_analysis passes (main.py:206).  Every  *)
(* entry of fundamentals is invalid: for a symbol whose StockFundamentals  *)
(* is valid FundamentalsAnalyzer.analyze raises AttributeError             *)
(* (fundamentals.py:92 reads fundamentals.net_margin, which the class does *)
(* not have) and the run ends before the synthesis.  So top_momentum and   *)
(* bullish_symbols are empty, technicals and sentiments are empty lists,   *)
(* and technical_map.get and sentiment_map.get give None for every symbol. *)
(***************************************************************************)

\* config.scoring.alert_threshold (7.5), in twelfths of a point
alert_threshold == 90
\* the neutral score 1.5 used for a missing technical or sentiment result, in tenths
NeutralScore == 15
\* Longest fundamentals list iterated.
NumSymbols == 15

\* The attributes the dataclasses declare.
MarketContextFields ==
    { "sp500_current", "sp500_high_52w", "sp500_drawdown", "is_bear_market",
      "is_correction", "vix_current", "volatility_level", "market_score",
      "recommendation", "analysis_time", "is_valid", "errors" }
SentimentScoreFields ==
    { "symbol", "total_score", "articles_analyzed", "positive_count",
      "negative_count", "neutral_count", "headlines", "sentiment_label",
      "summary", "analysis_time", "is_valid", "error" }

\* MarketContextAnalyzer._calculate_score: max(-2, min(1, score))
MarketScores == -2..1
Markets == [market_score : MarketScores, is_valid : BOOLEAN]

\* What FundamentalsAnalyzer.analyze returns, symbol apart:
\* FundamentalScore(symbol, total_score=0, is_valid=False, error=...), for a
\* symbol whose StockFundamentals is invalid.
FundamentalScores ==
    { [is_valid |-> FALSE, total_score |-> 0] }

\* market_norm + tech_norm + fund_norm + sent_norm, exactly, in twelfths
Score12(market_score, tech_score, fund_score, sent_score) ==
    15 * (market_score + 1) + tech_score + fund_score + sent_score

\* The inputs (market_score, tech, fund, sent) whose exact score is 7.5 and whose
\* score as computed in IEEE-754 doubles by main.py:269-275 is below 7.5.
RoundsBelowThreshold ==
    { <<0, 25, 40, 10>>, <<1, 10, 40, 10>>, <<1, 20, 10, 30>>, <<1, 20, 20, 20>>,
      <<1, 20, 30, 10>>, <<1, 20, 40, 0>>, <<1, 30, 20, 10>> }

\* score >= config.scoring.alert_threshold
MeetsThreshold(market_score, tech_score, fund_score, sent_score) ==
    /\ Score12(market_score, tech_score, fund_score, sent_score) >= alert_threshold
    /\ <<market_score, tech_score, fund_score, sent_score>> \notin RoundsBelowThreshold

\* tech_score = tech.total_score if (tech and tech.is_valid) else 1.5
TechScoreOf(tech) ==
    IF tech # <<>> /\ tech[1].is_valid THEN tech[1].total_score ELSE NeutralScore

\* sent_score = sent.total_score if sent else 1.5
SentScoreOf(sent) ==
    IF sent # <<>> THEN sent[1].total_score ELSE NeutralScore

\* The technical filter: below MM50, or RSI overbought
TechFiltered(tech) ==
    /\ tech # <<>>
    /\ tech[1].is_valid
    /\ (~tech[1].above_ma50 \/ tech[1].rsi_signal = "OVERBOUGHT")

\* PiTrader._calculate_confidence: reads sent.avg_confidence (for a valid
\* sentiment) and market.high_volume_count, attributes that SentimentScore and
\* MarketContext do not declare, so that every call ends in AttributeError.
calculate_confidence(mkt, fund, tech, sent) ==
    IF sent # <<>> /\ sent[1].is_valid /\ "avg_confidence" \notin SentimentScoreFields
    THEN <<"AttributeError">>
    ELSE IF "high_volume_count" \notin MarketContextFields
    THEN <<"AttributeError">>
    ELSE <<"confidence">>

\* A variant of the entry of _generate_signals that blocks only a score below -1.
generate_signals_enter_weak_gate(mkt) ==
    /\ gpc = "init"
    /\ market' = <<mkt>>
    /\ gpc' = IF mkt.market_score < -1 THEN "returned" ELSE "loop"
    /\ UNCHANGED <<idx, cur, signals, saved>>
    /\ UNCHANGED <<cbVars, rlVars, cacheVars, runVars, retryVars, cbConcVars, lockVars, memoVars, mainVars, ollamaVars, tdVars, sentVars, storeVars, memoConcVars>>

\* _generate_signals: the maps are built and the market gate is passed or not.
generate_signals_enter(mkt) ==
    /\ gpc = "init"
    /\ market' = <<mkt>>
    /\ gpc' = IF mkt.market_score < 0 THEN "returned" ELSE "loop"
    /\ UNCHANGED <<idx, cur, signals, saved>>
    /\ UNCHANGED <<cbVars, rlVars, cacheVars, runVars, retryVars, cbConcVars, lockVars, memoVars, mainVars, ollamaVars, tdVars, sentVars, storeVars, memoConcVars>>

\* What becomes of one entry of fundamentals in the loop of _generate_signals.
Verdict(mkt, fund, tech, sent) ==
    IF ~fund.is_valid THEN "skipped_invalid"
    ELSE IF TechFiltered(tech) THEN "filtered"
    ELSE IF ~MeetsThreshold(mkt.market_score, TechScoreOf(tech),
                            fund.total_score, SentScoreOf(sent))
    THEN "below_threshold"
    ELSE IF calculate_confidence(mkt, fund, tech, sent) = <<"AttributeError">>
    THEN "raised"
    ELSE "promoted"

\* One iteration of the loop "for fund in fundamentals" of _generate_signals.
generate_signals_iterate(fund, tech, sent) ==
    LET mkt == market[1]
        verdict == Verdict(mkt, fund, tech, sent)
        evaluated == verdict \in {"below_threshold", "raised", "promoted"}
        record == [symbol |-> idx + 1,
                   total_score |-> Score12(mkt.market_score, TechScoreOf(tech),
                                           fund.total_score, SentScoreOf(sent)),
                   scores |-> [market |-> mkt.market_score,
                               technical |-> TechScoreOf(tech),
                               momentum |-> fund.total_score,
                               sentiment |-> SentScoreOf(sent)],
                   price_at_signal |->
                       IF tech # <<>> /\ tech[1].is_valid THEN "tech.price"
                       ELSE "quote.price if quote.is_valid else None"]
    IN /\ gpc = "loop"
       /\ idx < NumSymbols
       /\ idx' = idx + 1
       /\ cur' = <<[symbol |-> idx + 1, fund |-> fund, tech |-> tech, sent |-> sent,
                    verdict |-> verdict,
                    score |-> IF evaluated THEN <<record.total_score>> ELSE <<>>]>>
       /\ gpc' = IF verdict = "raised" THEN "raised" ELSE "loop"
       /\ signals' = IF verdict = "promoted" THEN Append(signals, record) ELSE signals
       /\ saved' = IF verdict = "promoted" THEN Append(saved, record) ELSE saved
       /\ UNCHANGED market
       /\ UNCHANGED <<cbVars, rlVars, cacheVars, runVars, retryVars, cbConcVars, lockVars, memoVars, mainVars, ollamaVars, tdVars, sentVars, storeVars, memoConcVars>>

\* _generate_signals: the list is exhausted, return signals
generate_signals_return ==
    /\ gpc = "loop"
    /\ gpc' = "returned"
    /\ UNCHANGED <<market, idx, cur, signals, saved>>
    /\ UNCHANGED <<cbVars, rlVars, cacheVars, runVars, retryVars, cbConcVars, lockVars, memoVars, mainVars, ollamaVars, tdVars, sentVars, storeVars, memoConcVars>>

NextSynth ==
    \/ \E mkt \in Markets : generate_signals_enter(mkt)
    \/ \E fund \in FundamentalScores : generate_signals_iterate(fund, <<>>, <<>>)
    \/ generate_signals_return

SpecSynth == Init /\ [][NextSynth]_vars

\* ---- Claims about the signal synthesizer ----

\* C8: with a negative market score _generate_signals returns at once with an
\* empty list: no symbol is evaluated, no signal is created and none is saved.
C8_NegativeMarketBlocks ==
    (market # <<>> /\ market[1].market_score < 0) =>
        /\ gpc = "returned"
        /\ idx = 0
        /\ cur = <<>>
        /\ signals = <<>>
        /\ saved = <<>>

\* _generate_signals has returned for a market score of -1.
C8_Witness ==
    /\ market # <<>>
    /\ market[1].market_score = -1
    /\ gpc = "returned"
    /\ signals = <<>>

(***************************************************************************)
(* One run of the pipeline (main.py: PiTrader.run_full_analysis)           *)
(***************************************************************************)

\* len(config.watchlist); the symbols are 1..NumWatch in watchlist order.
NumWatch == 2
\* fundamentals[:10] and [...][:5] in run_full_analysis, fundamentals[:3] in _send_summary
TopMomentum == 10
TopBullish == 5
TopSummary == 3

\* seq[:n]
Take(seq, n) == SubSeq(seq, 1, IF Len(seq) < n THEN Len(seq) ELSE n)

\* [x.symbol for x in seq]
SymbolsOf(seq) == [i \in 1..Len(seq) |-> seq[i].symbol]

\* list.sort(key=Key, reverse=True): descending, equal keys keep their order.
\* Key is the key function, given as a function on the elements of seq.
SortDesc(seq, Key) ==
    LET sorted[n \in 0..Len(seq)] ==
            IF n = 0 THEN <<>>
            ELSE LET x == seq[n]
                     before == SelectSeq(sorted[n - 1], LAMBDA y : Key[y] >= Key[x])
                     after == SelectSeq(sorted[n - 1], LAMBDA y : Key[y] < Key[x])
                 IN before \o <<x>> \o after
    IN sorted[Len(seq)]

\* key=lambda x: x.total_score
FundKey(seq) == [x \in { seq[i] : i \in DOMAIN seq } |-> x.total_score]
\* key=lambda x: x.total_score if x.is_valid else -1
TechKey(seq) ==
    [x \in { seq[i] : i \in DOMAIN seq } |-> IF x.is_valid THEN x.total_score ELSE -1]

IsValid(x) == x.is_valid
ValidAbove(x) == x.is_valid /\ x.above_ma50

\* An exception reached the handler "except Exception as e" of run_full_analysis.
Caught(name) ==
    /\ rpc' = "except"
    /\ error_msg' = <<name>>

\* PiTrader(test_mode, debug_telegram).run_full_analysis() is entered.
run_start(tm, dbg) ==
    /\ rpc = "idle"
    /\ test_mode' = tm
    /\ debug_telegram' = dbg
    /\ rpc' = "market"
    /\ UNCHANGED <<run_market, results, fundamentals, top_momentum, technicals,
                   bullish_symbols, sentiments, error_msg, outbox, run_ret, calls>>
    /\ UNCHANGED <<cbVars, rlVars, cacheVars, synthVars, retryVars, cbConcVars, lockVars, memoVars, mainVars, ollamaVars, tdVars, sentVars, storeVars, memoConcVars>>

\* Phase 1: market = market_analyzer.analyze()
phase_market(raises, score) ==
    /\ rpc = "market"
    /\ calls' = Append(calls, <<"market", 0>>)
    /\ IF raises
       THEN /\ Caught("market")
            /\ UNCHANGED run_market
       ELSE /\ run_market' = <<score>>
            /\ rpc' = "momentum"
            /\ UNCHANGED error_msg
    /\ UNCHANGED <<test_mode, debug_telegram, results, fundamentals, top_momentum,
                   technicals, bullish_symbols, sentiments, outbox, run_ret>>
    /\ UNCHANGED <<cbVars, rlVars, cacheVars, synthVars, retryVars, cbConcVars, lockVars, memoVars, mainVars, ollamaVars, tdVars, sentVars, storeVars, memoConcVars>>

\* fundamentals_analyzer.analyze_watchlist(): one iteration of its loop,
\* results.append(self.analyze(symbol)).  valid is the is_valid of the
\* StockFundamentals that get_fundamentals(symbol) returns.  For an invalid
\* one analyze returns FundamentalScore(symbol, total_score=0,
\* is_valid=False); for a valid one it reads fundamentals.net_margin, which
\* StockFundamentals does not have, and the AttributeError leaves analyze and
\* analyze_watchlist and reaches the handler of the run.
momentum_step(valid) ==
    /\ rpc = "momentum"
    /\ Len(results) < NumWatch
    /\ calls' = Append(calls, <<"fund", Len(results) + 1>>)
    /\ IF valid
       THEN /\ Caught("momentum: AttributeError")
            /\ results' = <<>>
       ELSE /\ results' = Append(results, [symbol |-> Len(results) + 1,
                                                is_valid |-> FALSE,
                                                total_score |-> 0])
            /\ UNCHANGED <<rpc, error_msg>>
    /\ UNCHANGED <<test_mode, debug_telegram, run_market, fundamentals, top_momentum,
                   technicals, bullish_symbols, sentiments, outbox, run_ret>>
    /\ UNCHANGED <<cbVars, rlVars, cacheVars, synthVars, retryVars, cbConcVars, lockVars, memoVars, mainVars, ollamaVars, tdVars, sentVars, storeVars, memoConcVars>>

\* A variant of the end of Phase 2 that goes on to Phase 3 as soon as one
\* symbol of the watchlist has been analysed.
momentum_return_early ==
    /\ rpc = "momentum"
    /\ Len(results) >= 1
    /\ fundamentals' = SortDesc(results, FundKey(results))
    /\ top_momentum' = SymbolsOf(SelectSeq(Take(fundamentals', TopMomentum), IsValid))
    /\ results' = <<>>
    /\ rpc' = "technical"
    /\ UNCHANGED <<test_mode, debug_telegram, run_market, technicals, bullish_symbols,
                   sentiments, error_msg, outbox, run_ret, calls>>
    /\ UNCHANGED <<cbVars, rlVars, cacheVars, synthVars, retryVars, cbConcVars, lockVars, memoVars, mainVars, ollamaVars, tdVars, sentVars, storeVars, memoConcVars>>

\* analyze_watchlist sorts and returns; Phase 3 starts:
\* top_momentum = [f.symbol for f in fundamentals[:10] if f.is_valid]
momentum_return ==
    /\ rpc = "momentum"
    /\ Len(results) = NumWatch
    /\ fundamentals' = SortDesc(results, FundKey(results))
    /\ top_momentum' = SymbolsOf(SelectSeq(Take(fundamentals', TopMomentum), IsValid))
    /\ results' = <<>>
    /\ rpc' = "technical"
    /\ UNCHANGED <<test_mode, debug_telegram, run_market, technicals, bullish_symbols,
                   sentiments, error_msg, outbox, run_ret, calls>>
    /\ UNCHANGED <<cbVars, rlVars, cacheVars, synthVars, retryVars, cbConcVars, lockVars, memoVars, mainVars, ollamaVars, tdVars, sentVars, storeVars, memoConcVars>>

\* Phase 3: technicals = technical_analyzer.analyze_batch(top_momentum).
\* top_momentum is empty (no entry of fundamentals is valid), so the loop of
\* analyze_batch makes no turn and the sorted empty list comes back.
\* Phase 4: bullish_symbols =
\*   [t.symbol for t in technicals if t.is_valid and t.above_ma50][:5]
\* sentiments = sentiment_analyzer.analyze_multiple(bullish_symbols)
\*              if bullish_symbols else []
\* bullish_symbols is empty, so analyze_multiple is not called.
technical_return ==
    /\ rpc = "technical"
    /\ Len(results) = Len(top_momentum)
    /\ technicals' = SortDesc(results, TechKey(results))
    /\ bullish_symbols' = Take(SymbolsOf(SelectSeq(technicals', ValidAbove)), TopBullish)
    /\ sentiments' = <<>>
    /\ results' = <<>>
    /\ rpc' = "debug"
    /\ UNCHANGED <<test_mode, debug_telegram, run_market, fundamentals, top_momentum,
                   error_msg, outbox, run_ret, calls>>
    /\ UNCHANGED <<cbVars, rlVars, cacheVars, synthVars, retryVars, cbConcVars, lockVars, memoVars, mainVars, ollamaVars, tdVars, sentVars, storeVars, memoConcVars>>

\* if self.debug_telegram and not self.test_mode:
\*     self._send_debug_analysis(fundamentals[:10], technicals, sentiments)
\* For the first valid entry _send_debug_analysis looks up
\* telegram_bot.send_debug_stock_analysis, a method TelegramBot does not have.
phase_debug ==
    /\ rpc = "debug"
    /\ IF /\ debug_telegram
          /\ ~test_mode
          /\ SelectSeq(Take(fundamentals, TopMomentum), IsValid) # <<>>
       THEN Caught("debug: AttributeError")
       ELSE /\ rpc' = "signals"
            /\ UNCHANGED error_msg
    /\ UNCHANGED <<test_mode, debug_telegram, run_market, results, fundamentals,
                   top_momentum, technicals, bullish_symbols, sentiments, outbox,
                   run_ret, calls>>
    /\ UNCHANGED <<cbVars, rlVars, cacheVars, synthVars, retryVars, cbConcVars, lockVars, memoVars, mainVars, ollamaVars, tdVars, sentVars, storeVars, memoConcVars>>

\* Phase 5: signals = self._generate_signals(market, fundamentals, technicals,
\* sentiments).  It returns [] behind the market gate, and otherwise passes over
\* every entry of fundamentals, none being valid (see generate_signals_iterate),
\* and returns [].
phase_signals ==
    /\ rpc = "signals"
    /\ SelectSeq(fundamentals, IsValid) = <<>>
    /\ calls' = Append(calls, <<"signals", 0>>)
    /\ rpc' = "summary"
    /\ UNCHANGED <<test_mode, debug_telegram, run_market, results, fundamentals,
                   top_momentum, technicals, bullish_symbols, sentiments, error_msg,
                   outbox, run_ret>>
    /\ UNCHANGED <<cbVars, rlVars, cacheVars, synthVars, retryVars, cbConcVars, lockVars, memoVars, mainVars, ollamaVars, tdVars, sentVars, storeVars, memoConcVars>>

\* A variant of _send_summary whose call of send_message is accepted.
phase_summary_sends ==
    /\ rpc = "summary"
    /\ IF test_mode
       THEN /\ rpc' = "finally"
            /\ UNCHANGED <<error_msg, outbox>>
       ELSE /\ outbox' = Append(outbox, "summary")
            /\ rpc' = "finally"
            /\ UNCHANGED error_msg
    /\ UNCHANGED <<test_mode, debug_telegram, run_market, results, fundamentals,
                   top_momentum, technicals, bullish_symbols, sentiments, run_ret,
                   calls>>
    /\ UNCHANGED <<cbVars, rlVars, cacheVars, synthVars, retryVars, cbConcVars, lockVars, memoVars, mainVars, ollamaVars, tdVars, sentVars, storeVars, memoConcVars>>

\* self._send_summary(market, fundamentals, technicals, sentiments, signals):
\* nothing in test mode; otherwise f.momentum, an attribute FundamentalScore
\* does not have, is read for a valid entry among fundamentals[:3], and if there
\* is none the message is passed as send_message(message, to_channel=False),
\* a keyword TelegramBot.send_message does not accept (TypeError).
phase_summary ==
    /\ rpc = "summary"
    /\ IF test_mode
       THEN /\ rpc' = "finally"
            /\ UNCHANGED <<error_msg, outbox>>
       ELSE /\ Caught(IF SelectSeq(Take(fundamentals, TopSummary), IsValid) # <<>>
                      THEN "summary: AttributeError" ELSE "summary: TypeError")
            /\ UNCHANGED outbox
    /\ UNCHANGED <<test_mode, debug_telegram, run_market, results, fundamentals,
                   top_momentum, technicals, bullish_symbols, sentiments, run_ret,
                   calls>>
    /\ UNCHANGED <<cbVars, rlVars, cacheVars, synthVars, retryVars, cbConcVars, lockVars, memoVars, mainVars, ollamaVars, tdVars, sentVars, storeVars, memoConcVars>>

\* A variant of the handler that sends the error alert in test mode too.
run_except_always_alerts ==
    /\ rpc = "except"
    /\ outbox' = Append(outbox, "error_alert")
    /\ rpc' = "finally"
    /\ UNCHANGED <<test_mode, debug_telegram, run_market, results, fundamentals,
                   top_momentum, technicals, bullish_symbols, sentiments, error_msg,
                   run_ret, calls>>
    /\ UNCHANGED <<cbVars, rlVars, cacheVars, synthVars, retryVars, cbConcVars, lockVars, memoVars, mainVars, ollamaVars, tdVars, sentVars, storeVars, memoConcVars>>

\* except Exception as e: error_msg = str(e);
\* if not self.test_mode: telegram_bot.send_error_alert(error_msg)
run_except ==
    /\ rpc = "except"
    /\ outbox' = IF test_mode THEN outbox ELSE Append(outbox, "error_alert")
    /\ rpc' = "finally"
    /\ UNCHANGED <<test_mode, debug_telegram, run_market, results, fundamentals,
                   top_momentum, technicals, bullish_symbols, sentiments, error_msg,
                   run_ret, calls>>
    /\ UNCHANGED <<cbVars, rlVars, cacheVars, synthVars, retryVars, cbConcVars, lockVars, memoVars, mainVars, ollamaVars, tdVars, sentVars, storeVars, memoConcVars>>

\* finally: gc.collect(); return len(signals) if error_msg is None else -1
run_return ==
    /\ rpc = "finally"
    /\ run_ret' = <<IF error_msg = <<>> THEN 0 ELSE -1>>
    /\ rpc' = "returned"
    /\ UNCHANGED <<test_mode, debug_telegram, run_market, results, fundamentals,
                   top_momentum, technicals, bullish_symbols, sentiments, error_msg,
                   outbox, calls>>
    /\ UNCHANGED <<cbVars, rlVars, cacheVars, synthVars, retryVars, cbConcVars, lockVars, memoVars, mainVars, ollamaVars, tdVars, sentVars, storeVars, memoConcVars>>

\* Number of runs main starts in loop mode before the model stops it.
MaxRuns == 2

\* main(): trader = PiTrader(test_mode=args.test, debug_telegram=...), the
\* warm-up, the startup notification unless args.test, and the first call of
\* trader.run_full_analysis().
main_start(tm, dbg, loop) ==
    /\ main_pc = "none"
    /\ rpc = "idle"
    /\ test_mode' = tm
    /\ debug_telegram' = dbg
    /\ loop_mode' = loop
    /\ main_outbox' = IF tm THEN <<>> ELSE <<"startup">>
    /\ main_pc' = "running"
    /\ runs' = 1
    /\ rpc' = "market"
    /\ UNCHANGED <<run_market, results, fundamentals, top_momentum, technicals,
                   bullish_symbols, sentiments, error_msg, outbox, run_ret, calls>>
    /\ UNCHANGED <<cbVars, rlVars, cacheVars, synthVars, retryVars, cbConcVars, lockVars, memoVars, ollamaVars, tdVars, sentVars, storeVars, memoConcVars>>

\* A variant of the loop of main that stops after a run that failed.
main_loop_stops_on_error ==
    /\ main_pc = "running"
    /\ loop_mode
    /\ rpc = "returned"
    /\ runs < MaxRuns
    /\ IF run_ret = <<-1>>
       THEN /\ main_pc' = "exited"
            /\ UNCHANGED <<runs, runVars>>
       ELSE /\ runs' = runs + 1
            /\ rpc' = "market"
            /\ run_market' = <<>>
            /\ results' = <<>>
            /\ fundamentals' = <<>>
            /\ top_momentum' = <<>>
            /\ technicals' = <<>>
            /\ bullish_symbols' = <<>>
            /\ sentiments' = <<>>
            /\ error_msg' = <<>>
            /\ outbox' = <<>>
            /\ run_ret' = <<>>
            /\ calls' = <<>>
            /\ UNCHANGED <<main_pc, test_mode, debug_telegram>>
    /\ UNCHANGED <<loop_mode, main_outbox>>
    /\ UNCHANGED <<cbVars, rlVars, cacheVars, synthVars, retryVars, cbConcVars, lockVars, memoVars, ollamaVars, tdVars, sentVars, storeVars, memoConcVars>>

\* main(), loop mode: "while True: trader.run_full_analysis();
\* time.sleep(args.interval)": the run has returned, the pause has passed and
\* the next run is entered; its locals and what it hands to telegram_bot
\* start empty.
main_loop ==
    /\ main_pc = "running"
    /\ loop_mode
    /\ rpc = "returned"
    /\ runs < MaxRuns
    /\ runs' = runs + 1
    /\ rpc' = "market"
    /\ run_market' = <<>>
    /\ results' = <<>>
    /\ fundamentals' = <<>>
    /\ top_momentum' = <<>>
    /\ technicals' = <<>>
    /\ bullish_symbols' = <<>>
    /\ sentiments' = <<>>
    /\ error_msg' = <<>>
    /\ outbox' = <<>>
    /\ run_ret' = <<>>
    /\ calls' = <<>>
    /\ UNCHANGED <<main_pc, test_mode, debug_telegram, loop_mode, main_outbox>>
    /\ UNCHANGED <<cbVars, rlVars, cacheVars, synthVars, retryVars, cbConcVars, lockVars, memoVars, ollamaVars, tdVars, sentVars, storeVars, memoConcVars>>

\* main(), single run: "signals_count = trader.run_full_analysis()", then unless
\* args.test telegram_bot.send_completion_notification(...), a method
\* TelegramBot does not have (AttributeError, which nothing catches).
main_single_end ==
    /\ main_pc = "running"
    /\ ~loop_mode
    /\ rpc = "returned"
    /\ main_pc' = IF test_mode THEN "exited" ELSE "crashed"
    /\ UNCHANGED <<loop_mode, runs, main_outbox, runVars>>
    /\ UNCHANGED <<cbVars, rlVars, cacheVars, synthVars, retryVars, cbConcVars, lockVars, memoVars, ollamaVars, tdVars, sentVars, storeVars, memoConcVars>>

NextRun ==
    \/ \E tm \in BOOLEAN, dbg \in BOOLEAN : run_start(tm, dbg)
    \/ \E tm \in BOOLEAN, dbg \in BOOLEAN, loop \in BOOLEAN : main_start(tm, dbg, loop)
    \/ main_loop
    \/ main_single_end
    \/ \E raises \in BOOLEAN, score \in MarketScores : phase_market(raises, score)
    \/ \E valid \in BOOLEAN : momentum_step(valid)
    \/ momentum_return
    \/ technical_return
    \/ phase_debug
    \/ phase_signals
    \/ phase_summary
    \/ run_except
    \/ run_return

SpecRun == Init /\ [][NextRun]_vars

\* ---- Claims about the run ----

\* Position of an analyzer call in the order of the phases.
PhaseRank(kind) ==
    CASE kind = "market" -> 1
      [] kind = "fund" -> 2
      [] kind = "tech" -> 3
      [] kind = "sent" -> 4
      [] kind = "signals" -> 5

\* The symbols of the calls of one kind made so far, in order.
CalledFor(kind) ==
    LET of_kind == SelectSeq(calls, LAMBDA c : c[1] = kind)
    IN [i \in 1..Len(of_kind) |-> of_kind[i][2]]

\* Some call of a phase at or after the given one has been made.
Reached(rank) == \E i \in DOMAIN calls : PhaseRank(calls[i][1]) >= rank

\* C11: within one run the analyzer calls are made in phase order (market,
\* momentum, technical, sentiment, synthesis); the market analysis has returned
\* before any symbol is analysed, the whole watchlist has had its momentum
\* analysis before the technical phase starts, every symbol of top_momentum has
\* had its technical analysis before the sentiment phase starts, and synthesis
\* is called only after every symbol of bullish_symbols has had its sentiment
\* analysis (top_momentum and bullish_symbols are empty in every run, no
\* momentum analysis giving a valid result).
C11_PhaseOrder ==
    /\ \A i, j \in DOMAIN calls :
          i < j => PhaseRank(calls[i][1]) <= PhaseRank(calls[j][1])
    /\ Reached(2) => (calls[1] = <<"market", 0>> /\ run_market # <<>>)
    /\ (Reached(3) \/ rpc \in {"technical", "debug", "signals", "summary"})
          => (/\ CalledFor("fund") = [i \in 1..NumWatch |-> i]
              /\ Len(fundamentals) = NumWatch)
    /\ (Reached(4) \/ rpc \in {"debug", "signals", "summary"})
          => (/\ CalledFor("tech") = top_momentum
              /\ Len(technicals) = Len(top_momentum))
    /\ (Reached(5) \/ rpc \in {"debug", "signals", "summary"})
          => (/\ CalledFor("sent") = bullish_symbols
              /\ Len(sentiments) = Len(bullish_symbols))

\* Outside test mode a run has had the market analysis, then the momentum
\* analysis of every symbol of the watchlist, then the technical and sentiment
\* phases, which had no symbol to analyse, and then the synthesis.
C11_Witness ==
    /\ rpc = "summary"
    /\ ~test_mode
    /\ error_msg = <<>>
    /\ calls = <<<<"market", 0>>>> \o [i \in 1..NumWatch |-> <<"fund", i>>]
                  \o <<<<"signals", 0>>>>
    /\ Len(fundamentals) = NumWatch
    /\ top_momentum = <<>>
    /\ technicals = <<>>
    /\ sentiments = <<>>

\* The exceptions raised while a notification of the run is being sent.
NotificationErrors ==
    { "debug: AttributeError", "summary: AttributeError", "summary: TypeError" }

\* C25: an exception raised by a phase of run_full_analysis is caught by the
\* run: from then on no analyzer or synthesis call is made in that run, the
\* run goes through its handler and returns -1 (and returns -1 only then),
\* and what it hands to the notification sink in all is one error alert outside
\* test mode and nothing in test mode; in loop mode main stays in its loop and
\* the step it takes after a run that returned -1 is to start the next run.
C25_ErrorContained ==
    [][/\ (error_msg # <<>> /\ runs' = runs) =>
             /\ calls' = calls
             /\ error_msg' = error_msg
             /\ rpc' \in {"finally", "returned"}
       /\ error_msg' # <<>> => rpc' \in {"except", "finally", "returned"}
       /\ rpc' = "returned" => (run_ret' = <<-1>> <=> error_msg' # <<>>)
       /\ (rpc' \in {"finally", "returned"} /\ error_msg' # <<>>) =>
             outbox' = IF test_mode' THEN <<>> ELSE <<"error_alert">>
       /\ (loop_mode' /\ main_pc' # "none") => main_pc' = "running"
       /\ (main_pc = "running" /\ loop_mode /\ rpc = "returned" /\ run_ret = <<-1>>) =>
             /\ rpc' = "market"
             /\ runs' = runs + 1
             /\ calls' = <<>>]_vars

\* In loop mode outside test mode the momentum analysis of the second symbol
\* raised in the second run of main: the run has returned -1 after handing one
\* error alert to the sink, and main is still in its loop.
C25_Witness ==
    /\ main_pc = "running"
    /\ loop_mode
    /\ ~test_mode
    /\ runs = 2
    /\ rpc = "returned"
    /\ error_msg = <<"momentum: AttributeError">>
    /\ run_ret = <<-1>>
    /\ outbox = <<"error_alert">>
    /\ calls = <<<<"market", 0>>, <<"fund", 1>>, <<"fund", 2>>>>

\* C26: a failure while the per-symbol debug details or the summary are being
\* sent does not abort the run: the synthesis has been called and the run
\* does not return -1.
C26_NotificationFailureHarmless ==
    (rpc = "returned" /\ error_msg # <<>> /\ error_msg[1] \in NotificationErrors) =>
        /\ \E i \in DOMAIN calls : calls[i][1] = "signals"
        /\ run_ret # <<-1>>

\* C27: in test mode nothing is handed to the notification sink, by the run
\* (debug details, summary, error alert) or by main (startup, completion), on
\* any path; no exception comes from a notification; and the synthesis is
\* still called in every run whose analysis phases have all returned.
C27_TestModeSilent ==
    test_mode =>
        /\ outbox = <<>>
        /\ main_outbox = <<>>
        /\ main_pc # "crashed"
        /\ error_msg # <<>> => error_msg[1] \notin NotificationErrors
        /\ (rpc \in {"summary", "finally", "returned"} /\ error_msg = <<>>) =>
              \E i \in DOMAIN calls : calls[i][1] = "signals"
        /\ (rpc = "returned" /\ error_msg = <<>>) => run_ret = <<0>>

\* main has exited in test mode, with the debug option set, after a single
\* run that went through every phase and the synthesis and returned 0, and
\* nothing was sent.
C27_Witness ==
    /\ test_mode
    /\ debug_telegram
    /\ main_pc = "exited"
    /\ rpc = "returned"
    /\ error_msg = <<>>
    /\ run_ret = <<0>>
    /\ \E i \in DOMAIN calls : calls[i][1] = "signals"
    /\ outbox = <<>>
    /\ main_outbox = <<>>

(***************************************************************************)
(* Retry with exponential backoff (utils/decorators.py)                    *)
(***************************************************************************)

\* retry_with_backoff(max_retries, initial_delay, backoff_factor, max_delay);
\* on_retry is None, as at every use in the repository.
max_retries == 2
initial_delay == 1
backoff_factor == 2
max_delay == 3
\* Calls of the decorated function made one after the other.
MaxCalls == 2

\* The classes of the tuple exceptions, and classes outside it.
Retryable == {"RequestException", "ConnectionError", "TimeoutError"}
NotRetryable == {"ValueError"}

Min(a, b) == IF a < b THEN a ELSE b

\* wrapper(*args, **kwargs) is entered: delay = initial_delay, last_exception = None
retry_call ==
    /\ wpc \in {"idle", "returned", "raised"}
    /\ wcalls < MaxCalls
    /\ wcalls' = wcalls + 1
    /\ wpc' = "trying"
    /\ attempt' = 0
    /\ delay' = initial_delay
    /\ last_exception' = <<>>
    /\ invocations' = <<>>
    /\ slept' = <<>>
    /\ wout' = <<>>
    /\ UNCHANGED <<cbVars, rlVars, cacheVars, synthVars, runVars, cbConcVars, lockVars, memoVars, mainVars, ollamaVars, tdVars, sentVars, storeVars, memoConcVars>>

\* try: return func(*args, **kwargs)
attempt_returns ==
    /\ wpc = "trying"
    /\ attempt <= max_retries
    /\ invocations' = Append(invocations, "result")
    /\ wout' = <<Len(invocations) + 1, "result">>
    /\ wpc' = "returned"
    /\ UNCHANGED <<attempt, delay, last_exception, slept, wcalls>>
    /\ UNCHANGED <<cbVars, rlVars, cacheVars, synthVars, runVars, cbConcVars, lockVars, memoVars, mainVars, ollamaVars, tdVars, sentVars, storeVars, memoConcVars>>

\* A variant of the handler that gives up one retry early.
attempt_raises_one_less(class) ==
    /\ wpc = "trying"
    /\ attempt <= max_retries
    /\ class \in Retryable
    /\ invocations' = Append(invocations, class)
    /\ last_exception' = <<Len(invocations) + 1, class>>
    /\ attempt' = attempt + 1
    /\ IF attempt < max_retries - 1
       THEN /\ slept' = Append(slept, delay)
            /\ delay' = Min(delay * backoff_factor, max_delay)
            /\ UNCHANGED <<wpc, wout>>
       ELSE /\ wpc' = "raised"
            /\ wout' = last_exception'
            /\ UNCHANGED <<slept, delay>>
    /\ UNCHANGED wcalls
    /\ UNCHANGED <<cbVars, rlVars, cacheVars, synthVars, runVars, cbConcVars, lockVars, memoVars, mainVars, ollamaVars, tdVars, sentVars, storeVars, memoConcVars>>

\* except exceptions as e: last_exception = e; below max_retries the wrapper
\* sleeps, lengthens the delay and loops; after the last iteration of the loop
\* it executes raise last_exception.
attempt_raises(class) ==
    /\ wpc = "trying"
    /\ attempt <= max_retries
    /\ class \in Retryable
    /\ invocations' = Append(invocations, class)
    /\ last_exception' = <<Len(invocations) + 1, class>>
    /\ attempt' = attempt + 1
    /\ IF attempt < max_retries
       THEN /\ slept' = Append(slept, delay)
            /\ delay' = Min(delay * backoff_factor, max_delay)
            /\ UNCHANGED <<wpc, wout>>
       ELSE /\ wpc' = "raised"
            /\ wout' = last_exception'
            /\ UNCHANGED <<slept, delay>>
    /\ UNCHANGED wcalls
    /\ UNCHANGED <<cbVars, rlVars, cacheVars, synthVars, runVars, cbConcVars, lockVars, memoVars, mainVars, ollamaVars, tdVars, sentVars, storeVars, memoConcVars>>

\* A variant in which an exception outside the tuple is handled like one inside.
attempt_raises_other_retried(class) ==
    /\ wpc = "trying"
    /\ attempt <= max_retries
    /\ class \in NotRetryable
    /\ invocations' = Append(invocations, class)
    /\ last_exception' = <<Len(invocations) + 1, class>>
    /\ attempt' = attempt + 1
    /\ IF attempt < max_retries
       THEN /\ slept' = Append(slept, delay)
            /\ delay' = Min(delay * backoff_factor, max_delay)
            /\ UNCHANGED <<wpc, wout>>
       ELSE /\ wpc' = "raised"
            /\ wout' = last_exception'
            /\ UNCHANGED <<slept, delay>>
    /\ UNCHANGED wcalls
    /\ UNCHANGED <<cbVars, rlVars, cacheVars, synthVars, runVars, cbConcVars, lockVars, memoVars, mainVars, ollamaVars, tdVars, sentVars, storeVars, memoConcVars>>

\* func raises an exception that "except exceptions" does not match: it
\* leaves the wrapper at once.
attempt_raises_other(class) ==
    /\ wpc = "trying"
    /\ attempt <= max_retries
    /\ class \in NotRetryable
    /\ invocations' = Append(invocations, class)
    /\ wout' = <<Len(invocations) + 1, class>>
    /\ wpc' = "raised"
    /\ UNCHANGED <<attempt, delay, last_exception, slept, wcalls>>
    /\ UNCHANGED <<cbVars, rlVars, cacheVars, synthVars, runVars, cbConcVars, lockVars, memoVars, mainVars, ollamaVars, tdVars, sentVars, storeVars, memoConcVars>>

NextRetry ==
    \/ retry_call
    \/ attempt_returns
    \/ \E class \in Retryable : attempt_raises(class)
    \/ \E class \in NotRetryable : attempt_raises_other(class)

SpecRetry == Init /\ [][NextRetry]_vars

\* ---- Claims about retry_with_backoff ----

\* Every invocation of the current call raised an exception of the tuple.
AllRetryable == \A i \in DOMAIN invocations : invocations[i] \in Retryable

\* C12: when every attempt raises a retryable exception, the wrapper raises
\* after exactly max_retries + 1 invocations and max_retries sleeps, and what it
\* raises is the exception of the last invocation; when an attempt succeeds, the
\* wrapper returns that attempt's result, every earlier attempt was a retryable
\* failure followed by a sleep, and nothing is invoked after the success.
C12_RetryThenReraise ==
    /\ (wpc = "raised" /\ AllRetryable) =>
          /\ Len(invocations) = max_retries + 1
          /\ Len(slept) = max_retries
          /\ wout = <<max_retries + 1, invocations[max_retries + 1]>>
    /\ (wpc = "trying") =>
          /\ AllRetryable
          /\ Len(invocations) <= max_retries
          /\ Len(slept) = Len(invocations)
    /\ (\E i \in DOMAIN invocations : invocations[i] = "result") =>
          /\ wpc = "returned"
          /\ invocations[Len(invocations)] = "result"
          /\ \A i \in 1..(Len(invocations) - 1) : invocations[i] \in Retryable
          /\ Len(slept) = Len(invocations) - 1
          /\ wout = <<Len(invocations), "result">>

\* The retries are exhausted: every one of max_retries + 1 attempts failed.
C12_Witness ==
    /\ wpc = "raised"
    /\ AllRetryable
    /\ Len(invocations) = max_retries + 1
    /\ invocations[1] # invocations[max_retries + 1]

\* C13: an exception outside the retryable tuple leaves the wrapper at once:
\* it is the last invocation of the call, it is what the wrapper raises, and no
\* sleep follows it; raised by the first attempt, it propagates after exactly
\* one invocation and no sleep.
C13_NonRetryablePropagates ==
    \A i \in DOMAIN invocations :
        invocations[i] \in NotRetryable =>
            /\ i = Len(invocations)
            /\ wpc = "raised"
            /\ wout = <<i, invocations[i]>>
            /\ Len(slept) = i - 1

\* The first attempt raised a non-retryable exception and the call is over.
C13_Witness ==
    /\ wpc = "raised"
    /\ Len(invocations) = 1
    /\ invocations[1] \in NotRetryable
    /\ slept = <<>>

(***************************************************************************)
(* One circuit breaker shared by concurrent callers (utils/decorators.py). *)
(* CircuitBreaker holds no lock: each read and each assignment of          *)
(* self._state is a step of its own, and the threads interleave.           *)
(***************************************************************************)

\* Calls started through the shared breaker.
MaxConcCalls == 4
\* The clock stops once the recovery timeout of a failure at time 0 has passed.
MaxConcTime == recovery_timeout + 1

\* CircuitBreaker._should_attempt_reset: "elapsed > timedelta(seconds=
\* self.recovery_timeout)" on the clock value and the last_failure it has read
conc_should_attempt_reset(now_read, last_read) ==
    now_read - last_read > recovery_timeout

\* wrapper: the read of self._state.state in "if self._state.state == 'open'".
\* When it is not "open" the thread goes straight to the wrapped function.
conc_enter(t) ==
    /\ tpc[t] = "idle"
    /\ conc_calls < MaxConcCalls
    /\ conc_calls' = conc_calls + 1
    /\ IF cb_state = "open"
       THEN /\ tpc' = [tpc EXCEPT ![t] = "reset_none"]
            /\ UNCHANGED trial
       ELSE /\ tpc' = [tpc EXCEPT ![t] = "calling"]
            /\ trial' = [trial EXCEPT ![t] = (cb_state = "half-open")]
    /\ UNCHANGED <<cb_state, cb_failures, cb_last_failure, cb_now, loaded, clock_read,
                   fails_done>>
    /\ UNCHANGED <<cbVars, rlVars, cacheVars, synthVars, runVars, retryVars, lockVars, memoVars, mainVars, ollamaVars, tdVars, sentVars, storeVars, memoConcVars>>

\* _should_attempt_reset: the read of "if self._state.last_failure is None"
conc_reset_none(t) ==
    /\ tpc[t] = "reset_none"
    /\ IF cb_last_failure = <<>>
       THEN /\ tpc' = [tpc EXCEPT ![t] = "decided"]
            /\ trial' = [trial EXCEPT ![t] = TRUE]
       ELSE /\ tpc' = [tpc EXCEPT ![t] = "reset_now"]
            /\ UNCHANGED trial
    /\ UNCHANGED <<cb_state, cb_failures, cb_last_failure, cb_now, loaded, clock_read,
                   fails_done, conc_calls>>
    /\ UNCHANGED <<cbVars, rlVars, cacheVars, synthVars, runVars, retryVars, lockVars, memoVars, mainVars, ollamaVars, tdVars, sentVars, storeVars, memoConcVars>>

\* _should_attempt_reset: datetime.now(), the left operand of the subtraction
conc_reset_now(t) ==
    /\ tpc[t] = "reset_now"
    /\ clock_read' = [clock_read EXCEPT ![t] = cb_now]
    /\ tpc' = [tpc EXCEPT ![t] = "reset_elapsed"]
    /\ UNCHANGED <<cb_state, cb_failures, cb_last_failure, cb_now, loaded, trial,
                   fails_done, conc_calls>>
    /\ UNCHANGED <<cbVars, rlVars, cacheVars, synthVars, runVars, retryVars, lockVars, memoVars, mainVars, ollamaVars, tdVars, sentVars, storeVars, memoConcVars>>

\* _should_attempt_reset: the second read of self._state.last_failure and the
\* comparison; the wrapper goes on to set half-open or raises
\* CircuitBreakerOpenError.
conc_reset_elapsed(t) ==
    /\ tpc[t] = "reset_elapsed"
    /\ IF conc_should_attempt_reset(clock_read[t], cb_last_failure[1])
       THEN /\ tpc' = [tpc EXCEPT ![t] = "decided"]
            /\ trial' = [trial EXCEPT ![t] = TRUE]
       ELSE /\ tpc' = [tpc EXCEPT ![t] = "idle"]
            /\ UNCHANGED trial
    /\ UNCHANGED <<cb_state, cb_failures, cb_last_failure, cb_now, loaded, clock_read,
                   fails_done, conc_calls>>
    /\ UNCHANGED <<cbVars, rlVars, cacheVars, synthVars, runVars, retryVars, lockVars, memoVars, mainVars, ollamaVars, tdVars, sentVars, storeVars, memoConcVars>>

\* wrapper: self._state.state = "half-open", then func is invoked
conc_set_half_open(t) ==
    /\ tpc[t] = "decided"
    /\ cb_state' = "half-open"
    /\ tpc' = [tpc EXCEPT ![t] = "calling"]
    /\ UNCHANGED <<cb_failures, cb_last_failure, cb_now, loaded, clock_read, trial,
                   fails_done, conc_calls>>
    /\ UNCHANGED <<cbVars, rlVars, cacheVars, synthVars, runVars, retryVars, lockVars, memoVars, mainVars, ollamaVars, tdVars, sentVars, storeVars, memoConcVars>>

\* func returned; _on_success: self._state.failures = 0 (the read of state
\* before it only chooses a log line)
conc_success_count(t) ==
    /\ tpc[t] = "calling"
    /\ cb_failures' = 0
    /\ fails_done' = 0
    /\ tpc' = [tpc EXCEPT ![t] = "succ_state"]
    /\ UNCHANGED <<cb_state, cb_last_failure, cb_now, loaded, clock_read, trial,
                   conc_calls>>
    /\ UNCHANGED <<cbVars, rlVars, cacheVars, synthVars, runVars, retryVars, lockVars, memoVars, mainVars, ollamaVars, tdVars, sentVars, storeVars, memoConcVars>>

\* _on_success: self._state.state = "closed"; return result
conc_success_state(t) ==
    /\ tpc[t] = "succ_state"
    /\ cb_state' = "closed"
    /\ tpc' = [tpc EXCEPT ![t] = "idle"]
    /\ trial' = [trial EXCEPT ![t] = FALSE]
    /\ UNCHANGED <<cb_failures, cb_last_failure, cb_now, loaded, clock_read, fails_done,
                   conc_calls>>
    /\ UNCHANGED <<cbVars, rlVars, cacheVars, synthVars, runVars, retryVars, lockVars, memoVars, mainVars, ollamaVars, tdVars, sentVars, storeVars, memoConcVars>>

\* func raised an exception of self.exceptions; _on_failure:
\* the read of self._state.failures in "self._state.failures += 1"
conc_failure_load(t) ==
    /\ tpc[t] = "calling"
    /\ loaded' = [loaded EXCEPT ![t] = cb_failures]
    /\ tpc' = [tpc EXCEPT ![t] = "fail_store"]
    /\ UNCHANGED <<cb_state, cb_failures, cb_last_failure, cb_now, clock_read, trial,
                   fails_done, conc_calls>>
    /\ UNCHANGED <<cbVars, rlVars, cacheVars, synthVars, runVars, retryVars, lockVars, memoVars, mainVars, ollamaVars, tdVars, sentVars, storeVars, memoConcVars>>

\* func raised an exception outside self.exceptions: neither _on_success nor
\* _on_failure runs and the exception leaves the wrapper.
conc_raises_other(t) ==
    /\ tpc[t] = "calling"
    /\ tpc' = [tpc EXCEPT ![t] = "idle"]
    /\ trial' = [trial EXCEPT ![t] = FALSE]
    /\ UNCHANGED <<cb_state, cb_failures, cb_last_failure, cb_now, loaded, clock_read,
                   fails_done, conc_calls>>
    /\ UNCHANGED <<cbVars, rlVars, cacheVars, synthVars, runVars, retryVars, lockVars, memoVars, mainVars, ollamaVars, tdVars, sentVars, storeVars, memoConcVars>>

\* _on_failure: the write of "self._state.failures += 1"
conc_failure_store(t) ==
    /\ tpc[t] = "fail_store"
    /\ cb_failures' = loaded[t] + 1
    /\ fails_done' = fails_done + 1
    /\ tpc' = [tpc EXCEPT ![t] = "fail_now"]
    /\ UNCHANGED <<cb_state, cb_last_failure, cb_now, loaded, clock_read, trial,
                   conc_calls>>
    /\ UNCHANGED <<cbVars, rlVars, cacheVars, synthVars, runVars, retryVars, lockVars, memoVars, mainVars, ollamaVars, tdVars, sentVars, storeVars, memoConcVars>>

\* _on_failure: datetime.now(), the right-hand side of the assignment
conc_failure_now(t) ==
    /\ tpc[t] = "fail_now"
    /\ clock_read' = [clock_read EXCEPT ![t] = cb_now]
    /\ tpc' = [tpc EXCEPT ![t] = "fail_stamp"]
    /\ UNCHANGED <<cb_state, cb_failures, cb_last_failure, cb_now, loaded, trial,
                   fails_done, conc_calls>>
    /\ UNCHANGED <<cbVars, rlVars, cacheVars, synthVars, runVars, retryVars, lockVars, memoVars, mainVars, ollamaVars, tdVars, sentVars, storeVars, memoConcVars>>

\* _on_failure: the assignment self._state.last_failure = <the value read>
conc_failure_stamp(t) ==
    /\ tpc[t] = "fail_stamp"
    /\ cb_last_failure' = <<clock_read[t]>>
    /\ tpc' = [tpc EXCEPT ![t] = "fail_check"]
    /\ UNCHANGED <<cb_state, cb_failures, cb_now, loaded, clock_read, trial, fails_done,
                   conc_calls>>
    /\ UNCHANGED <<cbVars, rlVars, cacheVars, synthVars, runVars, retryVars, lockVars, memoVars, mainVars, ollamaVars, tdVars, sentVars, storeVars, memoConcVars>>

\* _on_failure: the read of "if self._state.failures >= self.failure_threshold";
\* below the threshold the exception is re-raised at once
conc_failure_check(t) ==
    /\ tpc[t] = "fail_check"
    /\ IF cb_failures >= failure_threshold
       THEN /\ tpc' = [tpc EXCEPT ![t] = "fail_open"]
            /\ UNCHANGED trial
       ELSE /\ tpc' = [tpc EXCEPT ![t] = "idle"]
            /\ trial' = [trial EXCEPT ![t] = FALSE]
    /\ UNCHANGED <<cb_state, cb_failures, cb_last_failure, cb_now, loaded, clock_read,
                   fails_done, conc_calls>>
    /\ UNCHANGED <<cbVars, rlVars, cacheVars, synthVars, runVars, retryVars, lockVars, memoVars, mainVars, ollamaVars, tdVars, sentVars, storeVars, memoConcVars>>

\* _on_failure: self._state.state = "open" (the read of failures after it only
\* fills a log line); then the exception is re-raised
conc_failure_open(t) ==
    /\ tpc[t] = "fail_open"
    /\ cb_state' = "open"
    /\ tpc' = [tpc EXCEPT ![t] = "idle"]
    /\ trial' = [trial EXCEPT ![t] = FALSE]
    /\ UNCHANGED <<cb_failures, cb_last_failure, cb_now, loaded, clock_read, fails_done,
                   conc_calls>>
    /\ UNCHANGED <<cbVars, rlVars, cacheVars, synthVars, runVars, retryVars, lockVars, memoVars, mainVars, ollamaVars, tdVars, sentVars, storeVars, memoConcVars>>

\* The wall clock advances.
conc_tick ==
    /\ cb_now < MaxConcTime
    /\ cb_now' = cb_now + 1
    /\ UNCHANGED <<cb_state, cb_failures, cb_last_failure, tpc, loaded, clock_read, trial,
                   fails_done, conc_calls>>
    /\ UNCHANGED <<cbVars, rlVars, cacheVars, synthVars, runVars, retryVars, lockVars, memoVars, mainVars, ollamaVars, tdVars, sentVars, storeVars, memoConcVars>>

NextCBConc ==
    \/ \E t \in Threads : conc_enter(t)
    \/ \E t \in Threads : conc_reset_none(t)
    \/ \E t \in Threads : conc_reset_now(t)
    \/ \E t \in Threads : conc_reset_elapsed(t)
    \/ \E t \in Threads : conc_set_half_open(t)
    \/ \E t \in Threads : conc_success_count(t)
    \/ \E t \in Threads : conc_success_state(t)
    \/ \E t \in Threads : conc_failure_load(t)
    \/ \E t \in Threads : conc_raises_other(t)
    \/ \E t \in Threads : conc_failure_store(t)
    \/ \E t \in Threads : conc_failure_now(t)
    \/ \E t \in Threads : conc_failure_stamp(t)
    \/ \E t \in Threads : conc_failure_check(t)
    \/ \E t \in Threads : conc_failure_open(t)
    \/ conc_tick

SpecCBConc == Init /\ [][NextCBConc]_vars

\* ---- Claims about the shared circuit breaker ----

\* C17: under every interleaving of two threads calling through one breaker,
\* no update of the failure counter is lost (when no call is in progress the
\* counter equals the number of failures counted since it was last cleared)
\* and at most one call at a time is inside the wrapped function as the
\* half-open trial.
C17_Serialized ==
    /\ (\A t \in Threads : tpc[t] = "idle") => cb_failures = fails_done
    /\ Cardinality({ t \in Threads : tpc[t] = "calling" /\ trial[t] }) <= 1

(***************************************************************************)
(* One TTLCache shared by concurrent callers (utils/cache.py).  Every      *)
(* operation runs "with self._lock"; inside it each statement is a step.   *)
(***************************************************************************)

\* Operations started on the shared cache.
MaxLockedOps == 3
\* The clock of the shared cache stops at MaxLockTime.
MaxLockTime == 2

LockedOps == {"get", "set", "delete", "clear", "cleanup_expired"}

\* self._timestamps[key] on the dict kept as a sequence of <<key, time>>
StampOf(ts, key) == ts[CHOOSE i \in DOMAIN ts : ts[i][1] = key][2]

\* del self._timestamps[key] on that sequence
DropStamp(ts, key) == SelectSeq(ts, LAMBDA e : e[1] # key)

\* self._timestamps[key] = time.time(): a key already held keeps its place in the dict,
\* a new key goes to the end
SetStamp(ts, key, stamp) ==
    IF key \in KeysOf(ts)
    THEN [i \in DOMAIN ts |-> IF ts[i][1] = key THEN <<key, stamp>> ELSE ts[i]]
    ELSE Append(ts, <<key, stamp>>)

\* Leaving the "with self._lock" block (by return or by an exception).
lk_release(t) ==
    /\ lk_lock' = 0
    /\ lk_pc' = [lk_pc EXCEPT ![t] = "idle"]
    /\ lk_pending' = [lk_pending EXCEPT ![t] = <<>>]
    /\ lk_job' = [lk_job EXCEPT ![t] = <<"none", 0>>]

\* Going on to another statement of the operation, inside the lock.
lk_goto(t, statement, pending) ==
    /\ lk_pc' = [lk_pc EXCEPT ![t] = statement]
    /\ lk_pending' = [lk_pending EXCEPT ![t] = pending]
    /\ UNCHANGED <<lk_lock, lk_job>>

\* A variant of entering an operation that does not wait for the lock.
lk_acquire_no_lock(t, name, key) ==
    /\ lk_pc[t] = "idle"
    /\ lk_ops < MaxLockedOps
    /\ lk_ops' = lk_ops + 1
    /\ lk_lock' = t
    /\ lk_job' = [lk_job EXCEPT ![t] = <<name, key>>]
    /\ lk_pc' = [lk_pc EXCEPT ![t] = name]
    /\ UNCHANGED <<lk_cache, lk_timestamps, lk_now, lk_pending, lk_torn>>
    /\ UNCHANGED <<cbVars, rlVars, cacheVars, synthVars, runVars, retryVars, cbConcVars, memoVars, mainVars, ollamaVars, tdVars, sentVars, storeVars, memoConcVars>>

\* A thread calls get/set/delete/clear/cleanup_expired: "with self._lock" is
\* entered when the lock is free.
lk_acquire(t, name, key) ==
    /\ lk_pc[t] = "idle"
    /\ lk_lock = 0
    /\ lk_ops < MaxLockedOps
    /\ lk_ops' = lk_ops + 1
    /\ lk_lock' = t
    /\ lk_job' = [lk_job EXCEPT ![t] = <<name, key>>]
    /\ lk_pc' = [lk_pc EXCEPT ![t] = name]
    /\ UNCHANGED <<lk_cache, lk_timestamps, lk_now, lk_pending, lk_torn>>
    /\ UNCHANGED <<cbVars, rlVars, cacheVars, synthVars, runVars, retryVars, cbConcVars, memoVars, mainVars, ollamaVars, tdVars, sentVars, storeVars, memoConcVars>>

\* get: "if key not in self._cache: return None", then the expiry test on
\* self._timestamps[key] (a KeyError if the key has no timestamp), then either
\* the two deletions or move_to_end and return.
lk_get(t) ==
    LET key == lk_job[t][2]
    IN /\ lk_pc[t] = "get"
       /\ IF key \notin KeysOf(lk_cache)
          THEN /\ lk_release(t)
               /\ UNCHANGED <<lk_cache, lk_torn>>
          ELSE IF key \notin KeysOf(lk_timestamps)
          THEN /\ lk_torn' = TRUE
               /\ lk_release(t)
               /\ UNCHANGED lk_cache
          ELSE IF lk_now - StampOf(lk_timestamps, key) > ttl
          THEN /\ lk_goto(t, "del_cache", <<key>>)
               /\ UNCHANGED <<lk_cache, lk_torn>>
          ELSE /\ lk_cache' = move_to_end(lk_cache, key)
               /\ lk_release(t)
               /\ UNCHANGED lk_torn
       /\ UNCHANGED <<lk_timestamps, lk_now, lk_ops>>
       /\ UNCHANGED <<cbVars, rlVars, cacheVars, synthVars, runVars, retryVars, cbConcVars, memoVars, mainVars, ollamaVars, tdVars, sentVars, storeVars, memoConcVars>>

\* del self._cache[key] for the first pending key (a KeyError if it is not held)
lk_del_cache(t) ==
    LET key == Head(lk_pending[t])
    IN /\ lk_pc[t] = "del_cache"
       /\ IF key \in KeysOf(lk_cache)
          THEN /\ lk_cache' = DelEntry(lk_cache, key)
               /\ lk_goto(t, "del_ts", lk_pending[t])
               /\ UNCHANGED lk_torn
          ELSE /\ lk_torn' = TRUE
               /\ lk_release(t)
               /\ UNCHANGED lk_cache
       /\ UNCHANGED <<lk_timestamps, lk_now, lk_ops>>
       /\ UNCHANGED <<cbVars, rlVars, cacheVars, synthVars, runVars, retryVars, cbConcVars, memoVars, mainVars, ollamaVars, tdVars, sentVars, storeVars, memoConcVars>>

\* del self._timestamps[key] for the first pending key (a KeyError if it has no
\* timestamp); then the next pending key, the loop of set, or the return.
lk_del_ts(t) ==
    LET key == Head(lk_pending[t])
        more == Tail(lk_pending[t])
    IN /\ lk_pc[t] = "del_ts"
       /\ IF key \in KeysOf(lk_timestamps)
          THEN /\ lk_timestamps' = DropStamp(lk_timestamps, key)
               /\ IF more # <<>>
                  THEN lk_goto(t, "del_cache", more)
                  ELSE IF lk_job[t][1] = "set"
                  THEN lk_goto(t, "set", <<>>)
                  ELSE lk_release(t)
               /\ UNCHANGED lk_torn
          ELSE /\ lk_torn' = TRUE
               /\ lk_release(t)
               /\ UNCHANGED lk_timestamps
       /\ UNCHANGED <<lk_cache, lk_now, lk_ops>>
       /\ UNCHANGED <<cbVars, rlVars, cacheVars, synthVars, runVars, retryVars, cbConcVars, memoVars, mainVars, ollamaVars, tdVars, sentVars, storeVars, memoConcVars>>

\* set: the test of "while len(self._cache) >= self.maxsize"; a full cache
\* gets its oldest key deleted, otherwise the value is stored next.
lk_set(t) ==
    /\ lk_pc[t] = "set"
    /\ IF Len(lk_cache) >= maxsize
       THEN /\ lk_pc' = [lk_pc EXCEPT ![t] = "del_cache"]
            /\ lk_pending' = [lk_pending EXCEPT ![t] = <<lk_cache[1][1]>>]
       ELSE /\ lk_pc' = [lk_pc EXCEPT ![t] = "set_value"]
            /\ UNCHANGED lk_pending
    /\ UNCHANGED <<lk_cache, lk_timestamps, lk_lock, lk_now, lk_job, lk_torn, lk_ops>>
    /\ UNCHANGED <<cbVars, rlVars, cacheVars, synthVars, runVars, retryVars, cbConcVars, memoVars, mainVars, ollamaVars, tdVars, sentVars, storeVars, memoConcVars>>

\* set: self._cache[key] = value
lk_set_value(t) ==
    /\ lk_pc[t] = "set_value"
    /\ lk_cache' = Assign(lk_cache, lk_job[t][2], 1, lk_now)
    /\ lk_pc' = [lk_pc EXCEPT ![t] = "set_ts"]
    /\ UNCHANGED <<lk_timestamps, lk_lock, lk_now, lk_job, lk_pending, lk_torn, lk_ops>>
    /\ UNCHANGED <<cbVars, rlVars, cacheVars, synthVars, runVars, retryVars, cbConcVars, memoVars, mainVars, ollamaVars, tdVars, sentVars, storeVars, memoConcVars>>

\* set: self._timestamps[key] = time.time(); self._cache.move_to_end(key)
\* (a KeyError if the key is no longer held)
lk_set_ts(t) ==
    LET key == lk_job[t][2]
    IN /\ lk_pc[t] = "set_ts"
       /\ lk_timestamps' = SetStamp(lk_timestamps, key, lk_now)
       /\ IF key \in KeysOf(lk_cache)
          THEN /\ lk_cache' = move_to_end(lk_cache, key)
               /\ UNCHANGED lk_torn
          ELSE /\ lk_torn' = TRUE
               /\ UNCHANGED lk_cache
       /\ lk_release(t)
       /\ UNCHANGED <<lk_now, lk_ops>>
       /\ UNCHANGED <<cbVars, rlVars, cacheVars, synthVars, runVars, retryVars, cbConcVars, memoVars, mainVars, ollamaVars, tdVars, sentVars, storeVars, memoConcVars>>

\* delete: "if key in self._cache", then the two deletions, or return False
lk_delete(t) ==
    /\ lk_pc[t] = "delete"
    /\ IF lk_job[t][2] \in KeysOf(lk_cache)
       THEN lk_goto(t, "del_cache", <<lk_job[t][2]>>)
       ELSE lk_release(t)
    /\ UNCHANGED <<lk_cache, lk_timestamps, lk_now, lk_torn, lk_ops>>
    /\ UNCHANGED <<cbVars, rlVars, cacheVars, synthVars, runVars, retryVars, cbConcVars, memoVars, mainVars, ollamaVars, tdVars, sentVars, storeVars, memoConcVars>>

\* clear: self._cache.clear()
lk_clear(t) ==
    /\ lk_pc[t] = "clear"
    /\ lk_cache' = <<>>
    /\ lk_pc' = [lk_pc EXCEPT ![t] = "clear_ts"]
    /\ UNCHANGED <<lk_timestamps, lk_lock, lk_now, lk_job, lk_pending, lk_torn, lk_ops>>
    /\ UNCHANGED <<cbVars, rlVars, cacheVars, synthVars, runVars, retryVars, cbConcVars, memoVars, mainVars, ollamaVars, tdVars, sentVars, storeVars, memoConcVars>>

\* clear: self._timestamps.clear()
lk_clear_ts(t) ==
    /\ lk_pc[t] = "clear_ts"
    /\ lk_timestamps' = <<>>
    /\ lk_release(t)
    /\ UNCHANGED <<lk_cache, lk_now, lk_torn, lk_ops>>
    /\ UNCHANGED <<cbVars, rlVars, cacheVars, synthVars, runVars, retryVars, cbConcVars, memoVars, mainVars, ollamaVars, tdVars, sentVars, storeVars, memoConcVars>>

\* cleanup_expired: expired = [k for k, t in self._timestamps.items() if now - t > self.ttl],
\* in the order of the dict
lk_cleanup_expired(t) ==
    LET old == SelectSeq(lk_timestamps, LAMBDA e : lk_now - e[2] > ttl)
        expired == [i \in DOMAIN old |-> old[i][1]]
    IN /\ lk_pc[t] = "cleanup_expired"
       /\ IF expired = <<>>
          THEN lk_release(t)
          ELSE lk_goto(t, "del_cache", expired)
       /\ UNCHANGED <<lk_cache, lk_timestamps, lk_now, lk_torn, lk_ops>>
       /\ UNCHANGED <<cbVars, rlVars, cacheVars, synthVars, runVars, retryVars, cbConcVars, memoVars, mainVars, ollamaVars, tdVars, sentVars, storeVars, memoConcVars>>

\* time.time() advances.
lk_tick ==
    /\ lk_now < MaxLockTime
    /\ lk_now' = lk_now + 1
    /\ UNCHANGED <<lk_cache, lk_timestamps, lk_lock, lk_pc, lk_job, lk_pending,
                   lk_torn, lk_ops>>
    /\ UNCHANGED <<cbVars, rlVars, cacheVars, synthVars, runVars, retryVars, cbConcVars, memoVars, mainVars, ollamaVars, tdVars, sentVars, storeVars, memoConcVars>>

NextLocked ==
    \/ \E t \in Threads, name \in LockedOps, key \in {1, 2} : lk_acquire(t, name, key)
    \/ \E t \in Threads : lk_get(t)
    \/ \E t \in Threads : lk_del_cache(t)
    \/ \E t \in Threads : lk_del_ts(t)
    \/ \E t \in Threads : lk_set(t)
    \/ \E t \in Threads : lk_set_value(t)
    \/ \E t \in Threads : lk_set_ts(t)
    \/ \E t \in Threads : lk_delete(t)
    \/ \E t \in Threads : lk_clear(t)
    \/ \E t \in Threads : lk_clear_ts(t)
    \/ \E t \in Threads : lk_cleanup_expired(t)
    \/ lk_tick

SpecLocked == Init /\ [][NextLocked]_vars

\* ---- Claims about the shared cache ----

\* C18: under every interleaving of two threads, whenever no operation is
\* inside the lock the keys of _cache are exactly the keys of _timestamps, at
\* most one operation is inside the lock at a time, and no operation ever
\* finds a key in one of the two dicts and not in the other.
C18_Atomic ==
    /\ ~lk_torn
    /\ (lk_lock = 0) => (KeysOf(lk_cache) = KeysOf(lk_timestamps))
    /\ Cardinality({ t \in Threads : lk_pc[t] # "idle" }) <= 1
    /\ (lk_lock = 0) <=> (\A t \in Threads : lk_pc[t] = "idle")

\* One thread is between the two deletions of an operation, so the two dicts
\* disagree, while the other thread has already completed operations.
C18_Witness ==
    /\ lk_lock # 0
    /\ lk_pc[lk_lock] = "del_ts"
    /\ KeysOf(lk_cache) # KeysOf(lk_timestamps)
    /\ lk_ops >= 3

(***************************************************************************)
(* Memoizing decorator (utils/cache.py, ttl_lru_cache)                     *)
(*                                                                         *)
(* One decorated function with its own TTLCache(memo_maxsize, ttl).  A key *)
(* is the tuple of the call's arguments; key 0 stands for arguments that   *)
(* are not hashable.  The wrapped function is the environment: what it     *)
(* would return if invoked is an input of the call.                        *)
(***************************************************************************)

\* maxsize of the decorated function's cache.
memo_maxsize == 1
\* Number of distinct hashable argument tuples.
NumMemoKeys == 2
\* Last instant of the clock.
MaxMemoTime == 2

MemoKeys == 1..NumMemoKeys
\* What the wrapped function can return: None, a falsy value that is not None
\* (0 here; False, "" and [] pass the same test "is not None"), and result
\* objects with is_valid False or True.
MemoResults == { "None", "0", "invalid", "valid" }
Falsy == { "None", "0" }

\* cache.get(key) of the wrapper: <<value or "None", the cache afterwards>>
memo_get(c, key) ==
    IF key \notin KeysOf(c) THEN <<"None", c>>
    ELSE IF m_now - EntryOf(c, key)[3] > ttl THEN <<"None", DelEntry(c, key)>>
    ELSE <<EntryOf(c, key)[2], move_to_end(c, key)>>

RECURSIVE MemoEvict(_)
\* set: while len(self._cache) >= self.maxsize: delete next(iter(self._cache))
MemoEvict(c) ==
    IF Len(c) >= memo_maxsize /\ c # <<>> THEN MemoEvict(Tail(c)) ELSE c

\* cache.set(key, value) of the wrapper
memo_set(c, key, value) ==
    move_to_end(Assign(MemoEvict(c), key, value, m_now), key)

\* The invocations that returned an invalid result, after one for key.
Invoked(key, result) ==
    { p \in invalid_at : p[1] # key }
        \cup (IF result = "invalid" THEN { <<key, m_now>> } ELSE {})

\* A variant of the wrapper that stores only results that are truthy.
wrapper_skips_falsy(key, result) ==
    LET got == memo_get(m_cache, key)
    IN IF got[1] # "None"
       THEN /\ m_op' = <<"call", key, FALSE, got[1]>>
            /\ m_cache' = got[2]
            /\ UNCHANGED <<m_now, invalid_at>>
            /\ UNCHANGED <<cbVars, rlVars, cacheVars, synthVars, runVars, retryVars, cbConcVars, lockVars, mainVars, ollamaVars, tdVars, sentVars, storeVars, memoConcVars>>
       ELSE /\ m_op' = <<"call", key, TRUE, result>>
            /\ m_cache' = IF result \notin Falsy
                          THEN memo_set(got[2], key, result) ELSE got[2]
            /\ invalid_at' = Invoked(key, result)
            /\ UNCHANGED m_now
            /\ UNCHANGED <<cbVars, rlVars, cacheVars, synthVars, runVars, retryVars, cbConcVars, lockVars, mainVars, ollamaVars, tdVars, sentVars, storeVars, memoConcVars>>

\* A variant of the wrapper that stores only results that are valid.
wrapper_skips_invalid(key, result) ==
    LET got == memo_get(m_cache, key)
    IN IF got[1] # "None"
       THEN /\ m_op' = <<"call", key, FALSE, got[1]>>
            /\ m_cache' = got[2]
            /\ UNCHANGED <<m_now, invalid_at>>
            /\ UNCHANGED <<cbVars, rlVars, cacheVars, synthVars, runVars, retryVars, cbConcVars, lockVars, mainVars, ollamaVars, tdVars, sentVars, storeVars, memoConcVars>>
       ELSE /\ m_op' = <<"call", key, TRUE, result>>
            /\ m_cache' = IF result \notin { "None", "invalid" }
                          THEN memo_set(got[2], key, result) ELSE got[2]
            /\ invalid_at' = Invoked(key, result)
            /\ UNCHANGED m_now
            /\ UNCHANGED <<cbVars, rlVars, cacheVars, synthVars, runVars, retryVars, cbConcVars, lockVars, mainVars, ollamaVars, tdVars, sentVars, storeVars, memoConcVars>>

\* ttl_lru_cache.decorator.wrapper(*args, **kwargs) with hashable arguments
memo_wrapper(key, result) ==
    LET got == memo_get(m_cache, key)
    IN IF got[1] # "None"
       THEN /\ m_op' = <<"call", key, FALSE, got[1]>>
            /\ m_cache' = got[2]
            /\ UNCHANGED <<m_now, invalid_at>>
            /\ UNCHANGED <<cbVars, rlVars, cacheVars, synthVars, runVars, retryVars, cbConcVars, lockVars, mainVars, ollamaVars, tdVars, sentVars, storeVars, memoConcVars>>
       ELSE /\ m_op' = <<"call", key, TRUE, result>>
            /\ m_cache' = IF result # "None"
                          THEN memo_set(got[2], key, result) ELSE got[2]
            /\ invalid_at' = Invoked(key, result)
            /\ UNCHANGED m_now
            /\ UNCHANGED <<cbVars, rlVars, cacheVars, synthVars, runVars, retryVars, cbConcVars, lockVars, mainVars, ollamaVars, tdVars, sentVars, storeVars, memoConcVars>>

\* wrapper(*args, **kwargs) with an argument that is not hashable: building the
\* key tuple does not hash it, so cache.get(key) raises TypeError outside the
\* try and the wrapped function is not invoked.
memo_wrapper_unhashable ==
    /\ m_op' = <<"call", 0, FALSE, "TypeError">>
    /\ UNCHANGED <<m_cache, m_now, invalid_at>>
    /\ UNCHANGED <<cbVars, rlVars, cacheVars, synthVars, runVars, retryVars, cbConcVars, lockVars, mainVars, ollamaVars, tdVars, sentVars, storeVars, memoConcVars>>

\* The clock of the decorated function advances.
memo_tick ==
    /\ m_now < MaxMemoTime
    /\ m_now' = m_now + 1
    /\ m_op' = <<"tick", 0, FALSE, "None">>
    /\ invalid_at' = { p \in invalid_at : m_now + 1 - p[2] <= ttl }
    /\ UNCHANGED m_cache
    /\ UNCHANGED <<cbVars, rlVars, cacheVars, synthVars, runVars, retryVars, cbConcVars, lockVars, mainVars, ollamaVars, tdVars, sentVars, storeVars, memoConcVars>>

NextMemo ==
    \/ \E key \in MemoKeys, result \in MemoResults : memo_wrapper(key, result)
    \/ memo_wrapper_unhashable
    \/ memo_tick

SpecMemo == Init /\ [][NextMemo]_vars

\* ---- Claims about the memoizing decorator ----

\* C21 as stated: after a call whose result is None or any falsy value the
\* result is not kept, so that the next call with the same arguments invokes
\* the wrapped function again.
C21_FalsyNotCached ==
    [][\A key \in MemoKeys :
         /\ (m_op'[1] = "call" /\ m_op'[2] = key /\ m_op'[3] /\ m_op'[4] \in Falsy) =>
               key \notin KeysOf(m_cache')
         /\ (m_op'[1] = "call" /\ m_op'[2] = key /\ key \notin KeysOf(m_cache)) =>
               m_op'[3]]_vars

\* C21 amended: a None result is not kept and a call for a key that is not kept
\* invokes the wrapped function; a falsy result that is not None is kept like
\* any other, and a call for it while at most ttl has elapsed returns it
\* without invoking the wrapped function.
C21_NoneNotCached ==
    [][\A key \in MemoKeys :
         /\ (m_op'[1] = "call" /\ m_op'[2] = key /\ m_op'[3] /\ m_op'[4] = "None") =>
               key \notin KeysOf(m_cache')
         /\ (m_op'[1] = "call" /\ m_op'[2] = key /\ key \notin KeysOf(m_cache)) =>
               m_op'[3]
         /\ (m_op'[1] = "call" /\ m_op'[2] = key /\ m_op'[3]
             /\ m_op'[4] \in Falsy \ { "None" }) =>
               /\ key \in KeysOf(m_cache')
               /\ EntryOf(m_cache', key) = <<key, m_op'[4], m_now>>
         /\ (/\ m_op'[1] = "call" /\ m_op'[2] = key
             /\ key \in KeysOf(m_cache)
             /\ EntryOf(m_cache, key)[2] \in Falsy
             /\ m_now - EntryOf(m_cache, key)[3] <= ttl) =>
               (~m_op'[3] /\ m_op'[4] = EntryOf(m_cache, key)[2])]_vars

\* A call has just invoked the wrapped function, which returned None, and the
\* key is not kept.
C21_Witness ==
    /\ m_op[1] = "call"
    /\ m_op[3]
    /\ m_op[4] = "None"
    /\ m_op[2] \in MemoKeys
    /\ m_op[2] \notin KeysOf(m_cache)

\* C22 as stated: once an invocation for a key has returned an invalid result,
\* every further call for the key while at most ttl has elapsed invokes nothing.
C22_InvalidServedWithinTTL ==
    [][\A key \in MemoKeys :
         (/\ m_op'[1] = "call" /\ m_op'[2] = key
          /\ \E p \in invalid_at : p[1] = key /\ m_now - p[2] <= ttl) =>
            (~m_op'[3] /\ m_op'[4] = "invalid")]_vars

\* C22 amended: an invalid result is kept like any other, and while it is still
\* held (it has not been evicted to make room for other keys) and at most ttl
\* has elapsed since it was stored, a call for the key returns that same
\* result without invoking the wrapped function, whatever the function would
\* return now.
C22_InvalidCached ==
    [][\A key \in MemoKeys :
         /\ (m_op'[1] = "call" /\ m_op'[2] = key /\ m_op'[3] /\ m_op'[4] = "invalid") =>
               /\ key \in KeysOf(m_cache')
               /\ EntryOf(m_cache', key) = <<key, "invalid", m_now>>
               /\ <<key, m_now>> \in invalid_at'
         /\ (/\ m_op'[1] = "call" /\ m_op'[2] = key
             /\ key \in KeysOf(m_cache)
             /\ EntryOf(m_cache, key)[2] = "invalid"
             /\ m_now - EntryOf(m_cache, key)[3] <= ttl) =>
               /\ ~m_op'[3]
               /\ m_op'[4] = "invalid"
               /\ EntryOf(m_cache', key) = EntryOf(m_cache, key)]_vars

\* A call has just been served an invalid result stored exactly ttl before.
C22_Witness ==
    /\ m_op[1] = "call"
    /\ ~m_op[3]
    /\ m_op[4] = "invalid"
    /\ m_op[2] \in KeysOf(m_cache)
    /\ m_now - EntryOf(m_cache, m_op[2])[3] = ttl
    /\ <<m_op[2], m_now - ttl>> \in invalid_at

(***************************************************************************)
(* LLM sentiment (data/ollama_client.py, OllamaClient.analyze_sentiment)   *)
(*                                                                         *)
(* Confidences are in hundredths.  The LLM backend is the environment: a   *)
(* call meets one behaviour of it.  analyze_sentiment is wrapped by        *)
(* ttl_lru_cache(maxsize=200, ttl=3600); the expiry of an entry is the     *)
(* action ollama_expire, and with fewer than 200 distinct texts nothing is *)
(* evicted.                                                                *)
(***************************************************************************)

\* maxsize of the cache of analyze_sentiment.
ollama_cache_size == 200

\* The texts: length, length after strip(), and what the keyword lists find
\* (the last one is a short word padded with blanks).
\* All are shorter than the 500 characters kept by text[:500].
Texts ==
    { [raw |-> 12, stripped |-> 12, words |-> w] : w \in {"positive", "none"} }
        \cup { [raw |-> 12, stripped |-> 12, words |-> "negative"],
               [raw |-> 12, stripped |-> 9, words |-> "positive"] }

\* The value of "sentiment" and of "confidence" in the JSON object of the
\* model: absent, null, a string that is no number, or a number.
SentimentFields == { "missing", "null", "positive", "NEUTRE", "BULLISH" }
ConfidenceFields ==
    { [kind |-> k, value |-> 0] : k \in {"missing", "null", "abc"} }
        \cup { [kind |-> "number", value |-> v] : v \in {-50, 85, 250} }

\* The object of a response that holds none.
NoObject == [sentiment |-> "missing", confidence |-> [kind |-> "missing", value |-> 0]]

\* What _generate returns: text without a JSON object, an object json.loads
\* rejects, "{ }", a "response" that is not a string, or a JSON object.
Responses ==
    { [kind |-> k, object |-> NoObject] :
        k \in {"text", "malformed", "empty_object", "not_a_string"} }
        \cup { [kind |-> "json", object |-> [sentiment |-> sf, confidence |-> cf]] :
                 sf \in SentimentFields, cf \in ConfidenceFields }

\* The behaviours of the backend: is_available() false; or _generate raising
\* after its retries; or _generate returning a response.
Backends ==
    { [available |-> FALSE, generate |-> "none",
       response |-> [kind |-> "text", object |-> NoObject]] }
        \cup { [available |-> TRUE, generate |-> g,
                response |-> [kind |-> "text", object |-> NoObject]] :
                 g \in {"TimeoutError", "ConnectionError", "HTTPError"} }
        \cup { [available |-> TRUE, generate |-> "returns", response |-> resp] :
                 resp \in Responses }

\* OllamaClient._fallback_sentiment(text)
fallback_sentiment(text) ==
    IF text.words = "positive" THEN "POSITIVE"
    ELSE IF text.words = "negative" THEN "NEGATIVE"
    ELSE "NEUTRAL"

\* OllamaClient._parse_json_response(response): "None", "dict" (the object, or
\* the empty dict of "{ }"), or the AttributeError of a response without strip()
parse_json_response(resp) ==
    IF resp.kind = "json" THEN [kind |-> "dict", empty |-> FALSE, object |-> resp.object]
    ELSE IF resp.kind = "empty_object"
    THEN [kind |-> "dict", empty |-> TRUE, object |-> NoObject]
    ELSE IF resp.kind = "not_a_string"
    THEN [kind |-> "AttributeError", empty |-> TRUE, object |-> NoObject]
    ELSE [kind |-> "None", empty |-> TRUE, object |-> NoObject]

\* parsed.get("sentiment", "").upper() looked up in sentiment_map
sentiment_of(field) ==
    LET upper == IF field = "positive" THEN "POSITIVE"
                 ELSE IF field = "missing" THEN "" ELSE field
    IN IF upper \in {"POSITIF", "POSITIVE"} THEN "POSITIVE"
       ELSE IF upper \in {"NEGATIF", "NEGATIVE"} THEN "NEGATIVE"
       ELSE IF upper \in {"NEUTRE", "NEUTRAL"} THEN "NEUTRAL"
       ELSE "UNKNOWN"

\* max(0.0, min(1.0, float(parsed.get("confidence", 0.5))))
confidence_of(field) ==
    LET value == IF field.kind = "missing" THEN 50 ELSE field.value
    IN IF value < 0 THEN 0 ELSE IF value > 100 THEN 100 ELSE value

\* The return of the keyword fallback, with the _update_diagnostics before it.
Fallback(text, confidence, reasoning, error) ==
    [raised |-> "none",
     result |-> <<[sentiment |-> fallback_sentiment(text), confidence |-> confidence,
                   reasoning |-> reasoning, error |-> error, is_valid |-> TRUE]>>,
     diag |-> <<TRUE, FALSE>>]

\* An exception that leaves analyze_sentiment.
Raises(exception) == [raised |-> exception, result |-> <<>>, diag |-> <<>>]

\* self.SENTIMENT_PROMPT.format(text=text): the braces of the JSON example in
\* the template are read as a replacement field named "sentiment" (with its
\* quotes), for which format has no argument: KeyError, for every text.
format_prompt == "KeyError"

\* The exception of the try block of analyze_sentiment, "none" without one.
TryException(backend) ==
    LET parsed == parse_json_response(backend.response)
    IN IF format_prompt # "prompt" THEN format_prompt
       ELSE IF backend.generate # "returns" THEN backend.generate
       ELSE IF parsed.kind = "AttributeError" THEN "AttributeError"
       ELSE IF parsed.kind = "None" \/ parsed.empty THEN "none"
       ELSE IF parsed.object.sentiment = "null" THEN "AttributeError"
       ELSE IF parsed.object.confidence.kind = "null" THEN "TypeError"
       ELSE IF parsed.object.confidence.kind = "abc" THEN "ValueError"
       ELSE "none"

\* A variant of the body whose "except Exception" re-raises.
analyze_body_reraises(text, backend) ==
    LET parsed == parse_json_response(backend.response)
    IN IF text.raw = 0 \/ text.stripped < 10
       THEN [raised |-> "none",
             result |-> <<[sentiment |-> "UNKNOWN", confidence |-> 0,
                           reasoning |-> "None", error |-> "Text too short",
                           is_valid |-> FALSE]>>,
             diag |-> <<>>]
       ELSE IF ~backend.available
       THEN Fallback(text, 30, "Fallback keyword detection", "None")
       ELSE IF TryException(backend) # "none"
       THEN Raises(TryException(backend))
       ELSE IF parsed.kind = "None" \/ parsed.empty
       THEN Fallback(text, 30, "Fallback - JSON parsing failed", "None")
       ELSE [raised |-> "none",
             result |-> <<[sentiment |-> sentiment_of(parsed.object.sentiment),
                           confidence |-> confidence_of(parsed.object.confidence),
                           reasoning |-> "reason", error |-> "None",
                           is_valid |-> TRUE]>>,
             diag |-> <<FALSE, TRUE>>]

\* The body of analyze_sentiment: the exception that leaves it ("none" when it
\* returns), <<the SentimentResult returned>>, and the arguments of
\* _update_diagnostics (<<>> when it is not called)
analyze_body(text, backend) ==
    LET parsed == parse_json_response(backend.response)
    IN IF text.raw = 0 \/ text.stripped < 10
       THEN [raised |-> "none",
             result |-> <<[sentiment |-> "UNKNOWN", confidence |-> 0,
                           reasoning |-> "None", error |-> "Text too short",
                           is_valid |-> FALSE]>>,
             diag |-> <<>>]
       ELSE IF ~backend.available
       THEN Fallback(text, 30, "Fallback keyword detection", "None")
       ELSE IF TryException(backend) # "none"
       THEN Fallback(text, 20, "None", TryException(backend))
       ELSE IF parsed.kind = "None" \/ parsed.empty
       THEN Fallback(text, 30, "Fallback - JSON parsing failed", "None")
       ELSE [raised |-> "none",
             result |-> <<[sentiment |-> sentiment_of(parsed.object.sentiment),
                           confidence |-> confidence_of(parsed.object.confidence),
                           reasoning |-> "reason", error |-> "None",
                           is_valid |-> TRUE]>>,
             diag |-> <<FALSE, TRUE>>]

RECURSIVE OllamaEvict(_)
\* TTLCache.set: while len(self._cache) >= self.maxsize: delete the oldest
OllamaEvict(c) ==
    IF Len(c) >= ollama_cache_size /\ c # <<>> THEN OllamaEvict(Tail(c)) ELSE c

\* ollama_client.analyze_sentiment(text): the wrapper of ttl_lru_cache and,
\* when the cache does not hold the text, the body.  An exception of the body
\* leaves the cache as the lookup left it.
analyze_sentiment(text, backend) ==
    IF text \in KeysOf(o_cache)
    THEN /\ o_last' = [text |-> text, backend |-> backend, cached |-> TRUE,
                       outcome |-> "returned",
                       result |-> <<EntryOf(o_cache, text)[2]>>]
         /\ o_cache' = move_to_end(o_cache, text)
         /\ UNCHANGED o_diag
         /\ UNCHANGED <<cbVars, rlVars, cacheVars, synthVars, runVars, retryVars, cbConcVars, lockVars, memoVars, mainVars, tdVars, sentVars, storeVars, memoConcVars>>
    ELSE LET out == analyze_body(text, backend)
         IN /\ o_last' = [text |-> text, backend |-> backend, cached |-> FALSE,
                          outcome |-> IF out.raised # "none" THEN out.raised
                                      ELSE "returned",
                          result |-> out.result]
            /\ o_cache' = IF out.raised # "none" THEN o_cache
                          ELSE move_to_end(Assign(OllamaEvict(o_cache), text,
                                                  out.result[1], 0), text)
            /\ o_diag' = out.diag
            /\ UNCHANGED <<cbVars, rlVars, cacheVars, synthVars, runVars, retryVars, cbConcVars, lockVars, memoVars, mainVars, tdVars, sentVars, storeVars, memoConcVars>>

\* The entry of a text is more than ttl old: the next lookup removes it.
ollama_expire(text) ==
    /\ text \in KeysOf(o_cache)
    /\ o_cache' = DelEntry(o_cache, text)
    /\ UNCHANGED <<o_last, o_diag>>
    /\ UNCHANGED <<cbVars, rlVars, cacheVars, synthVars, runVars, retryVars, cbConcVars, lockVars, memoVars, mainVars, tdVars, sentVars, storeVars, memoConcVars>>

NextOllama ==
    \/ \E text \in Texts, backend \in Backends : analyze_sentiment(text, backend)
    \/ \E text \in Texts : ollama_expire(text)

SpecOllama == Init /\ [][NextOllama]_vars

\* ---- Claims about the LLM sentiment ----

\* The backend was unavailable or what it returned could not be parsed.
NoParsedOutput(backend) ==
    \/ ~backend.available
    \/ (backend.generate = "returns" /\ backend.response.kind # "json")

\* The result of the last call is the keyword fallback's for its text.
FallbackResult(last) ==
    /\ last.result[1].sentiment = fallback_sentiment(last.text)
    /\ last.result[1].confidence <= 30

\* C28 as stated: for every text of at least 10 characters and every behaviour
\* of the backend the call returns a result with confidence in [0, 1], and when
\* the backend is unavailable or its output cannot be parsed the result is the
\* keyword fallback's with confidence at most 0.3.
C28_AlwaysDegrades ==
    [][(o_last' # o_last /\ o_last'.text.raw >= 10) =>
         /\ o_last'.outcome = "returned"
         /\ o_last'.result[1].confidence \in 0..100
         /\ NoParsedOutput(o_last'.backend) => FallbackResult(o_last')]_vars

\* The result of the last call is the one of a text that is too short.
TooShortResult(last) ==
    /\ last.result[1].sentiment = "UNKNOWN"
    /\ last.result[1].confidence = 0
    /\ ~last.result[1].is_valid

\* C28 amended: for every text, every behaviour of the backend and every
\* content of the cache the call returns a result with confidence in [0, 1];
\* when the text has at least 10 characters after stripping surrounding
\* whitespace and the backend is unavailable or its output cannot be parsed,
\* the result is the keyword fallback's with confidence at most 0.3; a text
\* with fewer than 10 characters after stripping gets sentiment UNKNOWN,
\* confidence 0.0 and is_valid false, whatever the backend.
C28_DegradesWhenLongEnough ==
    [][o_last' # o_last =>
         /\ o_last'.outcome = "returned"
         /\ o_last'.result[1].confidence \in 0..100
         /\ (o_last'.text.stripped >= 10 /\ NoParsedOutput(o_last'.backend)) =>
               FallbackResult(o_last')
         /\ o_last'.text.stripped < 10 => TooShortResult(o_last')]_vars

\* Three calls that the cache did not serve have returned: the last one, for
\* a text of positive words with fewer than 10 characters after stripping and
\* an available backend, UNKNOWN with confidence 0.0 and is_valid false; one
\* for a text of positive words that met an unavailable backend, POSITIVE with
\* confidence 0.3; and one for a text of negative words that met an available
\* backend, NEGATIVE with confidence 0.2 from the except block.
C28_Witness ==
    /\ o_last # <<>>
    /\ ~o_last.cached
    /\ o_last.text.stripped < 10
    /\ o_last.text.raw >= 10
    /\ o_last.text.words = "positive"
    /\ o_last.backend.available
    /\ o_last.outcome = "returned"
    /\ TooShortResult(o_last)
    /\ o_last.result[1].error = "Text too short"
    /\ \E long \in KeysOf(o_cache) :
          /\ long.stripped >= 10
          /\ long.words = "positive"
          /\ EntryOf(o_cache, long)[2].sentiment = "POSITIVE"
          /\ EntryOf(o_cache, long)[2].confidence = 30
          /\ EntryOf(o_cache, long)[2].reasoning = "Fallback keyword detection"
    /\ \E long \in KeysOf(o_cache) :
          /\ long.stripped >= 10
          /\ long.words = "negative"
          /\ EntryOf(o_cache, long)[2].sentiment = "NEGATIVE"
          /\ EntryOf(o_cache, long)[2].confidence = 20
          /\ EntryOf(o_cache, long)[2].error = "KeyError"

(***************************************************************************)
(* Market data client (data/twelve_data.py, TwelveDataClient)              *)
(*                                                                         *)
(* get_quote and get_time_series call _request, which is wrapped by the    *)
(* retry decorator and, outside it, by the circuit breaker                 *)
(* _twelve_data_cb shared by all calls.  The HTTP service is the           *)
(* environment: a call meets one behaviour of it.  The sleeps of the retry *)
(* and of the rate limit are time passing, which td_elapse covers.         *)
(***************************************************************************)

\* _twelve_data_cb = CircuitBreaker(failure_threshold=5, recovery_timeout=120)
td_failure_threshold == 5
td_recovery_timeout == 120
\* retry_with_backoff(max_retries=3) on _request
td_max_retries == 3

\* maxsize of the cache of get_quote.
quote_cache_size == 50
\* The seconds that pass in one step of the clock, and where it stops.
ElapseStep == 121
MaxTDTime == 121

Symbols == { "AAPL", "MSFT" }

\* The lists passed to get_multiple_quotes.
SymbolLists == { <<"AAPL", "MSFT">> }
\* ",".join(symbols)
symbols_str(symbols) == IF Len(symbols) = 1 THEN symbols[1] ELSE "AAPL,MSFT"

\* The behaviours of the HTTP service during one call of _request: a number
\* of transient failures of one kind (none, as many as there are retries, or
\* one more), and then a payload (the quote or series asked for, an error
\* payload, a JSON array, or a JSON number or null).
Behaviours ==
    [transients : {0, td_max_retries, td_max_retries + 1},
     kind : {"Timeout"},
     then : {"data", "api_error", "not_a_dict", "scalar"}]

\* The behaviours met by the requests get_multiple_quotes makes for single
\* symbols after its batch request: the quote at once, or transient failures
\* until the retries are exhausted.
FallbackBehaviours ==
    { b \in Behaviours : b.transients # td_max_retries /\ b.then = "data" }

\* The exceptions the circuit breaker counts, among those of the model.
CBExceptions == { "Timeout", "ValueError" }

\* The function under retry_with_backoff: the exception that leaves it
\* ("none" when it returns), the number of times _request's body ran (each
\* run calls _enforce_rate_limit, which adds one entry to the rate-limit
\* window, and then sends one HTTP request) and the number of times the retry
\* slept before a new attempt.  '"code" in data' raises TypeError on a
\* payload that is a number or null.
retried_request(b) ==
    IF b.transients > td_max_retries
    THEN [raised |-> b.kind, attempts |-> td_max_retries + 1,
          backoffs |-> td_max_retries]
    ELSE [raised |-> IF b.then = "api_error" THEN "ValueError"
                     ELSE IF b.then = "scalar" THEN "TypeError"
                     ELSE "none",
          attempts |-> b.transients + 1,
          backoffs |-> b.transients]

\* CircuitBreaker._should_attempt_reset
td_should_attempt_reset(cb, t_now) ==
    IF cb.last_failure = <<>> THEN TRUE
    ELSE t_now - cb.last_failure[1] > td_recovery_timeout

\* CircuitBreaker._on_success
td_on_success(cb) == [cb EXCEPT !.failures = 0, !.state = "closed"]

\* CircuitBreaker._on_failure
td_on_failure(cb, t_now) ==
    [state |-> IF cb.failures + 1 >= td_failure_threshold THEN "open" ELSE cb.state,
     failures |-> cb.failures + 1,
     last_failure |-> <<t_now>>]

\* A variant of the wrapper in which an open breaker lets every call through.
request_never_refuses(b, cb, t_now) ==
    LET entered == IF cb.state = "open" THEN [cb EXCEPT !.state = "half-open"]
                   ELSE cb
        inner == retried_request(b)
    IN [raised |-> inner.raised,
        attempts |-> inner.attempts,
        backoffs |-> inner.backoffs,
        trial |-> entered.state = "half-open",
        cb |-> IF inner.raised = "none" THEN td_on_success(entered)
               ELSE IF inner.raised \in CBExceptions
               THEN td_on_failure(entered, t_now)
               ELSE entered]

\* self._request(...): the wrapper of the circuit breaker around the retried
\* function: the exception raised ("none" when it returns), the number of
\* times the body ran, the number of sleeps of the retry, whether the call
\* ran with the breaker half-open, and the state of the breaker afterwards
request(b, cb, t_now) ==
    IF cb.state = "open" /\ ~td_should_attempt_reset(cb, t_now)
    THEN [raised |-> "CircuitBreakerOpenError", attempts |-> 0, backoffs |-> 0,
          trial |-> FALSE, cb |-> cb]
    ELSE LET entered == IF cb.state = "open" THEN [cb EXCEPT !.state = "half-open"]
                        ELSE cb
             inner == retried_request(b)
         IN [raised |-> inner.raised,
             attempts |-> inner.attempts,
             backoffs |-> inner.backoffs,
             trial |-> entered.state = "half-open",
             cb |-> IF inner.raised = "none" THEN td_on_success(entered)
                    ELSE IF inner.raised \in CBExceptions
                    THEN td_on_failure(entered, t_now)
                    ELSE entered]

\* A variant of the getters' body without the "except Exception".
getter_body_propagates(class, symbol, b, req) ==
    IF req.raised # "none"
    THEN [raised |-> req.raised, result |-> <<>>]
    ELSE IF b.then = "not_a_dict"
    THEN [raised |-> "AttributeError", result |-> <<>>]
    ELSE [raised |-> "none",
          result |-> <<[class |-> class, symbol |-> symbol, is_valid |-> TRUE,
                        error |-> "None"]>>]

\* The body of get_quote and of get_time_series after _request ended as req:
\* the result built from the payload, or the invalid result of the
\* "except Exception" with error = str(e)
getter_body(class, symbol, b, req) ==
    IF req.raised # "none"
    THEN [raised |-> "none",
          result |-> <<[class |-> class, symbol |-> symbol, is_valid |-> FALSE,
                        error |-> req.raised]>>]
    ELSE IF b.then = "not_a_dict"
    THEN [raised |-> "none",
          result |-> <<[class |-> class, symbol |-> symbol, is_valid |-> FALSE,
                        error |-> "AttributeError"]>>]
    ELSE [raised |-> "none",
          result |-> <<[class |-> class, symbol |-> symbol, is_valid |-> TRUE,
                        error |-> "None"]>>]

RECURSIVE QuoteEvict(_)
\* TTLCache.set: while len(self._cache) >= self.maxsize: delete the oldest
QuoteEvict(c) ==
    IF Len(c) >= quote_cache_size /\ c # <<>> THEN QuoteEvict(Tail(c)) ELSE c

\* twelve_data_client.get_quote(symbol) called with the breaker as cb and the
\* cache as quotes: the wrapper of ttl_lru_cache and, when the cache does not
\* hold the symbol, the body, whose result is stored; what the call did, what
\* it returned or raised, and the breaker and the cache afterwards
cached_get_quote(symbol, b, cb, quotes, t_now) ==
    IF symbol \in KeysOf(quotes)
    THEN [cached |-> TRUE, request |-> "none", attempts |-> 0, backoffs |-> 0,
          trial |-> FALSE, outcome |-> "returned",
          result |-> <<EntryOf(quotes, symbol)[2]>>,
          cb |-> cb, quotes |-> move_to_end(quotes, symbol)]
    ELSE LET req == request(b, cb, t_now)
             out == getter_body("StockQuote", symbol, b, req)
         IN [cached |-> FALSE, request |-> req.raised, attempts |-> req.attempts,
             backoffs |-> req.backoffs, trial |-> req.trial,
             outcome |-> IF out.raised # "none" THEN out.raised ELSE "returned",
             result |-> out.result,
             cb |-> req.cb,
             quotes |-> IF out.raised # "none" THEN quotes
                        ELSE move_to_end(Assign(QuoteEvict(quotes), symbol,
                                                out.result[1], 0), symbol)]

\* A call of twelve_data_client.get_quote(symbol) by the program.
get_quote(symbol, b) ==
    LET call == cached_get_quote(symbol, b, td_cb, td_quotes, td_now)
    IN /\ td_last' = [op |-> "get_quote", symbol |-> symbol,
                      cached |-> call.cached, request |-> call.request,
                      attempts |-> call.attempts, backoffs |-> call.backoffs,
                      trial |-> call.trial, outcome |-> call.outcome,
                      result |-> call.result]
       /\ td_cb' = call.cb
       /\ td_quotes' = call.quotes
       /\ UNCHANGED td_now
       /\ UNCHANGED <<cbVars, rlVars, cacheVars, synthVars, runVars, retryVars, cbConcVars, lockVars, memoVars, mainVars, ollamaVars, sentVars, storeVars, memoConcVars>>

\* twelve_data_client.get_time_series(symbol, interval, outputsize)
get_time_series(symbol, b) ==
    LET req == request(b, td_cb, td_now)
        out == getter_body("HistoricalData", symbol, b, req)
    IN /\ td_last' = [op |-> "get_time_series", symbol |-> symbol,
                      cached |-> FALSE, request |-> req.raised,
                      attempts |-> req.attempts,
                      backoffs |-> req.backoffs, trial |-> req.trial,
                      outcome |-> IF out.raised # "none" THEN out.raised
                                  ELSE "returned",
                      result |-> out.result]
       /\ td_cb' = req.cb
       /\ UNCHANGED <<td_quotes, td_now>>
       /\ UNCHANGED <<cbVars, rlVars, cacheVars, synthVars, runVars, retryVars, cbConcVars, lockVars, memoVars, mainVars, ollamaVars, sentVars, storeVars, memoConcVars>>

RECURSIVE fallback_quotes(_, _, _, _, _, _)
\* get_multiple_quotes: "for symbol in symbols: results[symbol] =
\* self.get_quote(symbol)" from the i-th symbol on; an exception of get_quote
\* ends the loop
fallback_quotes(symbols, fb, i, cb, quotes, t_now) ==
    IF i > Len(symbols)
    THEN [outcome |-> "returned", results |-> <<>>, cb |-> cb, quotes |-> quotes]
    ELSE LET call == cached_get_quote(symbols[i], fb[i], cb, quotes, t_now)
             rest == fallback_quotes(symbols, fb, i + 1, call.cb, call.quotes, t_now)
         IN IF call.outcome # "returned"
            THEN [outcome |-> call.outcome, results |-> <<>>,
                  cb |-> call.cb, quotes |-> call.quotes]
            ELSE [outcome |-> rest.outcome, results |-> call.result \o rest.results,
                  cb |-> rest.cb, quotes |-> rest.quotes]

\* twelve_data_client.get_multiple_quotes(symbols) for a list that is not
\* empty: one batch request through _request; a payload that is a dict gives a
\* quote for each symbol and leaves the cache of get_quote alone; a payload
\* that is no dict, or any exception of the request, makes the method call
\* get_quote for each symbol in turn, the service behaving as fb.
get_multiple_quotes(symbols, b, fb) ==
    LET req == request(b, td_cb, td_now)
        individually == req.raised # "none" \/ b.then = "not_a_dict"
        fallback == fallback_quotes(symbols, fb, 1, req.cb, td_quotes, td_now)
        batch == [i \in DOMAIN symbols |->
                    [class |-> "StockQuote", symbol |-> symbols[i],
                     is_valid |-> TRUE, error |-> "None"]]
    IN /\ td_last' = [op |-> "get_multiple_quotes", symbol |-> symbols_str(symbols),
                      cached |-> FALSE, request |-> req.raised,
                      attempts |-> req.attempts, backoffs |-> req.backoffs,
                      trial |-> req.trial,
                      outcome |-> IF individually THEN fallback.outcome
                                  ELSE "returned",
                      result |-> IF individually THEN fallback.results ELSE batch]
       /\ td_cb' = IF individually THEN fallback.cb ELSE req.cb
       /\ td_quotes' = IF individually THEN fallback.quotes ELSE td_quotes
       /\ UNCHANGED td_now
       /\ UNCHANGED <<cbVars, rlVars, cacheVars, synthVars, runVars, retryVars, cbConcVars, lockVars, memoVars, mainVars, ollamaVars, sentVars, storeVars, memoConcVars>>

\* The quote of a symbol is more than ttl old: the next lookup removes it.
quote_expire(symbol) ==
    /\ symbol \in KeysOf(td_quotes)
    /\ td_quotes' = DelEntry(td_quotes, symbol)
    /\ UNCHANGED <<td_cb, td_now, td_last>>
    /\ UNCHANGED <<cbVars, rlVars, cacheVars, synthVars, runVars, retryVars, cbConcVars, lockVars, memoVars, mainVars, ollamaVars, sentVars, storeVars, memoConcVars>>

\* Time passes.
td_elapse ==
    /\ td_now + ElapseStep <= MaxTDTime
    /\ td_now' = td_now + ElapseStep
    /\ UNCHANGED <<td_cb, td_quotes, td_last>>
    /\ UNCHANGED <<cbVars, rlVars, cacheVars, synthVars, runVars, retryVars, cbConcVars, lockVars, memoVars, mainVars, ollamaVars, sentVars, storeVars, memoConcVars>>

NextTD ==
    \/ \E symbol \in Symbols, b \in Behaviours : get_quote(symbol, b)
    \/ \E b \in Behaviours : get_time_series("AAPL", b)
    \/ \E symbols \in SymbolLists, b \in Behaviours :
          \E fb \in [DOMAIN symbols -> FallbackBehaviours] :
             get_multiple_quotes(symbols, b, fb)
    \/ \E symbol \in Symbols : quote_expire(symbol)
    \/ td_elapse

SpecTD == Init /\ [][NextTD]_vars

\* ---- Claims about the market data client ----

\* C29: get_quote and get_time_series never raise; when the request failed
\* (retries of a transient error exhausted, error payload, or circuit open)
\* they return a result with is_valid = false and an error text.
C29_NeverRaises ==
    [][(td_last' # td_last /\ td_last'.op \in {"get_quote", "get_time_series"}) =>
         /\ td_last'.outcome = "returned"
         /\ td_last'.request # "none" =>
               /\ ~td_last'.result[1].is_valid
               /\ td_last'.result[1].error = td_last'.request
               /\ td_last'.result[1].symbol = td_last'.symbol]_vars

\* get_time_series has been refused by the open circuit without running the
\* request and has returned an invalid result with the error of the breaker.
C29_Witness ==
    /\ td_last # <<>>
    /\ td_last.outcome = "returned"
    /\ td_last.op = "get_time_series"
    /\ td_last.request = "CircuitBreakerOpenError"
    /\ td_last.attempts = 0
    /\ ~td_last.result[1].is_valid
    /\ td_last.result[1].error = "CircuitBreakerOpenError"

\* C33: a call of _request made while the breaker is open and the recovery
\* timeout has not elapsed only raises the circuit-open error: the body never
\* runs (no HTTP request, no entry in the rate-limit window, no sleep of the
\* rate limit), the retry never sleeps, and the breaker's state, failure
\* count and failure timestamp are as before.
C33_OpenCallHasNoEffect ==
    [][(/\ td_cb.state = "open"
        /\ ~td_should_attempt_reset(td_cb, td_now)
        /\ td_last' # td_last
        /\ ~td_last'.cached) =>
         /\ td_last'.request = "CircuitBreakerOpenError"
         /\ td_last'.attempts = 0
         /\ td_last'.backoffs = 0
         /\ ~td_last'.trial
         /\ td_cb' = td_cb
         /\ td_now' = td_now]_vars

\* get_quote has been refused by the breaker, which five failures had opened
\* less than the recovery timeout before.
C33_Witness ==
    /\ td_last # <<>>
    /\ td_last.op = "get_quote"
    /\ ~td_last.cached
    /\ td_last.request = "CircuitBreakerOpenError"
    /\ td_last.attempts = 0
    /\ td_last.backoffs = 0
    /\ td_cb.state = "open"
    /\ td_cb.failures = td_failure_threshold
    /\ ~td_should_attempt_reset(td_cb, td_now)

\* C36: while the breaker is half-open, the HTTP requests that reach the
\* provider are those of one trial call: once a call has run as the trial and
\* the breaker is still half-open, no further request is sent before the
\* breaker has moved to closed or back to open.  (The claim counts single
\* requests and so asks at least this; the requests a trial call repeats on
\* a transient error are not held against it here.)
C36_NoRequestAfterTrial ==
    [][(td_cb.state = "half-open" /\ td_last' # td_last) =>
         td_last'.attempts = 0]_vars

\* C37: an error payload of the provider (the ValueError of _request) does
\* not count towards opening the breaker: the call that meets one leaves
\* the failure count no higher than it was and does not open the breaker.
C37_LogicalErrorsNotCounted ==
    [][(td_last' # td_last /\ td_last'.request = "ValueError") =>
         /\ td_cb'.failures <= td_cb.failures
         /\ td_cb.state = "closed" => td_cb'.state = "closed"]_vars

(***************************************************************************)
(* News sentiment score (analysis/sentiment.py, SentimentAnalyzer)         *)
(*                                                                         *)
(* Scores are in tenths of a point.  SentimentAnalyzer.analyze raises on   *)
(* its first statement, so that no call of it reaches the news client, the *)
(* classification of the articles or _calculate_score.  _calculate_score   *)
(* is a function of the counts a SentimentScore holds and is applied to    *)
(* score objects of every such counts.                                     *)
(***************************************************************************)

\* config.scoring.news_count: the most articles asked of the news client.
news_count == 5

\* The values of each of positive_count, negative_count and neutral_count.
Counts == 0..news_count

\* A SentimentScore built with total_score 0.0 and the given counts,
\* articles_analyzed being their sum: the fields _calculate_score reads or
\* writes, and is_valid.
ScoreObject(pos, neg, neu) ==
    [positive_count |-> pos, negative_count |-> neg, neutral_count |-> neu,
     articles_analyzed |-> pos + neg + neu, total_score |-> 0,
     sentiment_label |-> "UNKNOWN", is_valid |-> TRUE]

\* The articles counted in a score.
Counted(score) == score.positive_count + score.negative_count + score.neutral_count

\* A variant of _calculate_score whose thresholds are strict.
calculate_score_strict(score) ==
    LET total == score.articles_analyzed
    IN IF total = 0
       THEN [score EXCEPT !.total_score = 15, !.sentiment_label = "NEUTRAL"]
       ELSE IF 10 * score.positive_count > 6 * total
       THEN [score EXCEPT !.total_score = 30, !.sentiment_label = "VERY_POSITIVE"]
       ELSE IF 10 * score.positive_count > 4 * total
       THEN [score EXCEPT !.total_score = 20, !.sentiment_label = "POSITIVE"]
       ELSE IF 10 * score.negative_count > 6 * total
       THEN [score EXCEPT !.total_score = 0, !.sentiment_label = "VERY_NEGATIVE"]
       ELSE IF 10 * score.negative_count > 4 * total
       THEN [score EXCEPT !.total_score = 10, !.sentiment_label = "NEGATIVE"]
       ELSE [score EXCEPT !.total_score = 15, !.sentiment_label = "NEUTRAL"]

\* A variant of _calculate_score that tests the negative ratio first.
calculate_score_negative_first(score) ==
    LET total == score.articles_analyzed
    IN IF total = 0
       THEN [score EXCEPT !.total_score = 15, !.sentiment_label = "NEUTRAL"]
       ELSE IF 10 * score.negative_count >= 6 * total
       THEN [score EXCEPT !.total_score = 0, !.sentiment_label = "VERY_NEGATIVE"]
       ELSE IF 10 * score.negative_count >= 4 * total
       THEN [score EXCEPT !.total_score = 10, !.sentiment_label = "NEGATIVE"]
       ELSE IF 10 * score.positive_count >= 6 * total
       THEN [score EXCEPT !.total_score = 30, !.sentiment_label = "VERY_POSITIVE"]
       ELSE IF 10 * score.positive_count >= 4 * total
       THEN [score EXCEPT !.total_score = 20, !.sentiment_label = "POSITIVE"]
       ELSE [score EXCEPT !.total_score = 15, !.sentiment_label = "NEUTRAL"]

\* SentimentAnalyzer._calculate_score(score): pos_ratio >= 0.6 is
\* positive_count / total >= 0.6, that is 10 * positive_count >= 6 * total
calculate_score(score) ==
    LET total == score.articles_analyzed
    IN IF total = 0
       THEN [score EXCEPT !.total_score = 15, !.sentiment_label = "NEUTRAL"]
       ELSE IF 10 * score.positive_count >= 6 * total
       THEN [score EXCEPT !.total_score = 30, !.sentiment_label = "VERY_POSITIVE"]
       ELSE IF 10 * score.positive_count >= 4 * total
       THEN [score EXCEPT !.total_score = 20, !.sentiment_label = "POSITIVE"]
       ELSE IF 10 * score.negative_count >= 6 * total
       THEN [score EXCEPT !.total_score = 0, !.sentiment_label = "VERY_NEGATIVE"]
       ELSE IF 10 * score.negative_count >= 4 * total
       THEN [score EXCEPT !.total_score = 10, !.sentiment_label = "NEGATIVE"]
       ELSE [score EXCEPT !.total_score = 15, !.sentiment_label = "NEUTRAL"]

\* SentimentAnalyzer.analyze(symbol): its first statement,
\* SentimentScore(symbol=symbol), raises TypeError (the dataclass requires
\* total_score) before the try is entered; nothing is asked of the news client
\* and no score object exists.
analyze ==
    /\ sent_pc' = "TypeError"
    /\ news_score' = <<>>
    /\ UNCHANGED <<cbVars, rlVars, cacheVars, synthVars, runVars, retryVars, cbConcVars, lockVars, memoVars, mainVars, ollamaVars, tdVars, storeVars, memoConcVars>>

\* self._calculate_score(score) on a score object holding the given counts.
apply_calculate_score(pos, neg, neu) ==
    /\ sent_pc' = "scored"
    /\ news_score' = <<calculate_score(ScoreObject(pos, neg, neu))>>
    /\ UNCHANGED <<cbVars, rlVars, cacheVars, synthVars, runVars, retryVars, cbConcVars, lockVars, memoVars, mainVars, ollamaVars, tdVars, storeVars, memoConcVars>>

NextSent ==
    \/ analyze
    \/ \E pos \in Counts, neg \in Counts, neu \in Counts :
          apply_calculate_score(pos, neg, neu)

SpecSent == Init /\ [][NextSent]_vars

\* ---- Claims about the news sentiment score ----

\* C30: with at least one article, the score is 3.0 if positive/total >= 0.6,
\* otherwise 2.0 if positive/total >= 0.4, otherwise 0.0 if negative/total >=
\* 0.6, otherwise 1.0 if negative/total >= 0.4, otherwise 1.5, where total is
\* the sum of the positive, negative and neutral counts.
C30_ScoreFromCounts ==
    (sent_pc = "scored" /\ Counted(news_score[1]) >= 1) =>
        LET total == Counted(news_score[1])
            pos == news_score[1].positive_count
            neg == news_score[1].negative_count
        IN /\ news_score[1].is_valid
           /\ news_score[1].total_score =
                CASE 5 * pos >= 3 * total -> 30
                  [] 5 * pos < 3 * total /\ 5 * pos >= 2 * total -> 20
                  [] 5 * pos < 2 * total /\ 5 * neg >= 3 * total -> 0
                  [] 5 * pos < 2 * total /\ 5 * neg < 3 * total
                       /\ 5 * neg >= 2 * total -> 10
                  [] OTHER -> 15

\* Three positive articles of five, a ratio of exactly 0.6, scored 3.0.
C30_Witness ==
    /\ sent_pc = "scored"
    /\ news_score[1].positive_count = 3
    /\ news_score[1].negative_count = 1
    /\ news_score[1].neutral_count = 1
    /\ news_score[1].total_score = 30
    /\ news_score[1].sentiment_label = "VERY_POSITIVE"

DayStep == 7
MaxDay == 7

\* The ratings passed to rate_signal: 0 is out of range.
RatingArgs == { 0, 3, 5 }

\* SignalRecord.price_at_signal: Optional[float] = None; <<>> is None
PricesAtSignal == { <<>>, <<100>> }

\* What get_quote returns to update_performance: an invalid quote, a valid
\* quote without price, or a valid quote and its price.
QuoteResults ==
    { [is_valid |-> FALSE, price |-> <<>>], [is_valid |-> TRUE, price |-> <<>>],
      [is_valid |-> TRUE, price |-> <<110>>], [is_valid |-> TRUE, price |-> <<120>>] }

\* SignalRecord(symbol=..., price_at_signal=price): the fields the store reads
\* or writes later, all None but the timestamp and the price
NewRecord(price, t_now) ==
    [timestamp |-> t_now, price_at_signal |-> price,
     rating |-> <<>>, rated_at |-> <<>>,
     price_after_7d |-> <<>>, actual_return |-> <<>>,
     performance_updated_at |-> <<>>]

\* SignalsStore.get_signal: None (<<>>) when the file is absent or json.load
\* fails on it, else the record
get_signal ==
    IF sig_disk = "ok" THEN sig_file ELSE <<>>

\* A thread starts a call.
Starts(t) == sig_thr[t].pc \in {"idle", "done"}

\* The call of t returns without writing.
Returns(t, call, result) ==
    [sig_thr EXCEPT ![t] = [pc |-> "done", op |-> call, arg |-> 0, before |-> <<>>,
                            after |-> <<>>, raced |-> FALSE, ret |-> result]]

\* The call of t, whose argument (the rating, or the price of the quote) is
\* arg, has read a record and goes on to save_signal(written).
GoesToSave(t, call, arg, read, written) ==
    [sig_thr EXCEPT ![t] = [pc |-> "open", op |-> call, arg |-> arg, before |-> read,
                            after |-> <<written>>, raced |-> FALSE, ret |-> "none"]]

\* The call of update_performance of t has read a record with a price and
\* waits for the answer of twelve_data_client.get_quote.
WaitsForQuote(t, read) ==
    [sig_thr EXCEPT ![t] = [pc |-> "quote", op |-> "perf", arg |-> 0, before |-> read,
                            after |-> <<>>, raced |-> FALSE, ret |-> "none"]]

\* SignalsStore.save_signal(signal) is called with a SignalRecord built at
\* this moment, for an id that has no file yet.  (The call of the pipeline,
\* main.py:300, is never reached: _calculate_confidence raises before the
\* record is built.  The caller is a collaborator of the store, as for
\* rate_signal and update_performance.)
save_new_begin(t, price) ==
    /\ Starts(t)
    /\ sig_disk = "absent"
    /\ \A u \in Threads : sig_thr[u].pc \notin {"open", "dump"}
    /\ sig_thr' = GoesToSave(t, "save", 0, <<>>, NewRecord(price, sig_now))
    /\ UNCHANGED <<sig_disk, sig_file, sig_now>>
    /\ UNCHANGED <<cbVars, rlVars, cacheVars, synthVars, runVars, retryVars, cbConcVars, lockVars, memoVars, mainVars, ollamaVars, tdVars, sentVars, memoConcVars>>

\* SignalsStore.rate_signal(signal_id, rating), up to the call of save_signal
rate_signal(t, rating) ==
    /\ Starts(t)
    /\ sig_thr' =
         IF rating < 1 \/ rating > 5 THEN Returns(t, "rate", "ValueError")
         ELSE IF get_signal = <<>> THEN Returns(t, "rate", "False")
         ELSE GoesToSave(t, "rate", rating, get_signal,
                         [get_signal[1] EXCEPT !.rating = <<rating>>,
                                               !.rated_at = <<sig_now>>])
    /\ UNCHANGED <<sig_disk, sig_file, sig_now>>
    /\ UNCHANGED <<cbVars, rlVars, cacheVars, synthVars, runVars, retryVars, cbConcVars, lockVars, memoVars, mainVars, ollamaVars, tdVars, sentVars, memoConcVars>>

\* (quote.price - price_at_signal) / price_at_signal * 100, in whole percent
ActualReturn(price, price_at_signal) ==
    ((price - price_at_signal) * 100) \div price_at_signal

\* SignalsStore.update_performance(signal_id), first part: signal =
\* self.get_signal(signal_id); False without a record or without
\* price_at_signal; otherwise twelve_data_client.get_quote(signal.symbol) is
\* called and the thread waits for its answer
update_performance(t) ==
    /\ Starts(t)
    /\ sig_thr' =
         IF get_signal = <<>> THEN Returns(t, "perf", "False")
         ELSE IF get_signal[1].price_at_signal = <<>>
         THEN Returns(t, "perf", "False")
         ELSE WaitsForQuote(t, get_signal)
    /\ UNCHANGED <<sig_disk, sig_file, sig_now>>
    /\ UNCHANGED <<cbVars, rlVars, cacheVars, synthVars, runVars, retryVars, cbConcVars, lockVars, memoVars, mainVars, ollamaVars, tdVars, sentVars, memoConcVars>>

\* SignalsStore.update_performance, second part: the quote has arrived; False
\* when it is invalid or has no price; otherwise the record read in the first
\* part gets the performance fields and the date of this moment, and
\* save_signal is called on it
update_performance_quote(t, quote) ==
    LET read == sig_thr[t].before
    IN /\ sig_thr[t].pc = "quote"
       /\ sig_thr' =
            IF ~quote.is_valid \/ quote.price = <<>>
            THEN Returns(t, "perf", "False")
            ELSE GoesToSave(t, "perf", quote.price[1], read,
                            [read[1] EXCEPT
                               !.price_after_7d = quote.price,
                               !.actual_return =
                                  <<ActualReturn(quote.price[1],
                                                 read[1].price_at_signal[1])>>,
                               !.performance_updated_at = <<sig_now>>])
       /\ UNCHANGED <<sig_disk, sig_file, sig_now>>
       /\ UNCHANGED <<cbVars, rlVars, cacheVars, synthVars, runVars, retryVars, cbConcVars, lockVars, memoVars, mainVars, ollamaVars, tdVars, sentVars, memoConcVars>>

\* save_signal: open(path, "w") empties the file
save_signal_open(t) ==
    /\ sig_thr[t].pc = "open"
    /\ sig_disk' = "empty"
    /\ sig_thr' = [sig_thr EXCEPT ![t].pc = "dump"]
    /\ UNCHANGED <<sig_file, sig_now>>
    /\ UNCHANGED <<cbVars, rlVars, cacheVars, synthVars, runVars, retryVars, cbConcVars, lockVars, memoVars, mainVars, ollamaVars, tdVars, sentVars, memoConcVars>>

\* save_signal: json.dump and close write the record from the start of the
\* file, and the call returns.  When another thread wrote since this one
\* opened the file, what it wrote is overwritten from the start but not cut:
\* the file holds this thread's record, or (the other text being longer) a
\* text json.load rejects.
save_signal_dump(t, clean) ==
    /\ sig_thr[t].pc = "dump"
    /\ clean \/ sig_thr[t].raced
    /\ sig_disk' = IF clean THEN "ok" ELSE "corrupt"
    /\ sig_file' = IF clean THEN sig_thr[t].after ELSE <<>>
    /\ sig_thr' = [u \in Threads |->
                     IF u = t
                     THEN [sig_thr[t] EXCEPT !.pc = "done", !.raced = FALSE,
                             !.before = <<>>, !.after = <<>>,
                             !.ret = IF sig_thr[t].op = "save" THEN "id" ELSE "True"]
                     ELSE IF sig_thr[u].pc = "dump"
                     THEN [sig_thr[u] EXCEPT !.raced = TRUE]
                     ELSE sig_thr[u]]
    /\ UNCHANGED sig_now
    /\ UNCHANGED <<cbVars, rlVars, cacheVars, synthVars, runVars, retryVars, cbConcVars, lockVars, memoVars, mainVars, ollamaVars, tdVars, sentVars, memoConcVars>>

\* Days pass.
sig_elapse ==
    /\ sig_now + DayStep <= MaxDay
    /\ sig_now' = sig_now + DayStep
    /\ UNCHANGED <<sig_disk, sig_file, sig_thr>>
    /\ UNCHANGED <<cbVars, rlVars, cacheVars, synthVars, runVars, retryVars, cbConcVars, lockVars, memoVars, mainVars, ollamaVars, tdVars, sentVars, memoConcVars>>

NextStore ==
    \/ \E t \in Threads, price \in PricesAtSignal : save_new_begin(t, price)
    \/ \E t \in Threads, rating \in RatingArgs : rate_signal(t, rating)
    \/ \E t \in Threads : update_performance(t)
    \/ \E t \in Threads, quote \in QuoteResults : update_performance_quote(t, quote)
    \/ \E t \in Threads : save_signal_open(t)
    \/ \E t \in Threads, clean \in BOOLEAN : save_signal_dump(t, clean)
    \/ sig_elapse

SpecStore == Init /\ [][NextStore]_vars

\* ---- Claims about the signal store ----

\* C31: once a rating is stored, the stored rating and rated_at never change,
\* and once the performance fields are stored, they never change.
C31_AssignedOnce ==
    [][(sig_file # <<>> /\ sig_file' # <<>>) =>
         /\ sig_file[1].rating # <<>> =>
               /\ sig_file'[1].rating = sig_file[1].rating
               /\ sig_file'[1].rated_at = sig_file[1].rated_at
         /\ sig_file[1].price_after_7d # <<>> =>
               /\ sig_file'[1].price_after_7d = sig_file[1].price_after_7d
               /\ sig_file'[1].actual_return = sig_file[1].actual_return
               /\ sig_file'[1].performance_updated_at =
                    sig_file[1].performance_updated_at]_vars

\* The thread finishes the save_signal of a rate_signal or update_performance.
FinishesUpdate(t) ==
    /\ sig_thr[t].pc = "dump"
    /\ sig_thr'[t].pc = "done"
    /\ sig_thr[t].op \in {"rate", "perf"}

\* The file holds the update of the call of u.
HoldsUpdateOf(disk, file, u) ==
    /\ disk = "ok"
    /\ sig_thr[u].op = "rate" => file[1].rating = <<sig_thr[u].arg>>
    /\ sig_thr[u].op = "perf" => file[1].price_after_7d = <<sig_thr[u].arg>>

\* C39: when a rate_signal and an update_performance on the same signal both
\* return True, the stored record afterwards holds the updates.  It is stated
\* for the call that writes last: when that call returns True after the other
\* has, the file can be read and holds its update, whatever the record it had
\* read.  (The claim asks the same of the call that wrote first.)
C39_LastWriterKept ==
    [][\A t \in Threads, u \in Threads :
         (/\ FinishesUpdate(t)
          /\ u # t
          /\ sig_thr[u].pc = "done"
          /\ sig_thr[u].ret = "True"
          /\ sig_thr[u].op \in {"rate", "perf"} \ {sig_thr[t].op}) =>
            HoldsUpdateOf(sig_disk', sig_file', t)]_vars

(***************************************************************************)
(* Memoizing decorator called by two threads (utils/cache.py,              *)
(* ttl_lru_cache).  cache.get and cache.set are atomic (the lock of the    *)
(* TTLCache); the wrapper holds no lock between them, so that a call is    *)
(* four steps: the lookup, the invocation of the wrapped function, the     *)
(* store, and the return.  The clock does not advance while the two calls  *)
(* run.  Each thread makes one call; cache_clear may be called at any      *)
(* moment and leaves the calls in progress as they are.                    *)
(***************************************************************************)

\* The other thread.
OtherThread(t) == 3 - t

\* Thread t is inside the wrapper, in a call for key.
InCallFor(t, key) ==
    /\ mw_thr[t].pc \in {"missed", "computed", "stored"}
    /\ mw_thr[t].key = key

\* A variant of the lookup that goes on to the wrapped function on a hit too.
mw_lookup_ignores_hit(t, key) ==
    LET got == memo_get(mw_cache, key)
        o == OtherThread(t)
        busy == InCallFor(o, key)
        after == busy /\ got[1] # "None"
    IN /\ mw_thr[t].pc = "idle"
       /\ mw_cache' = got[2]
       /\ mw_thr' = [mw_thr EXCEPT
              ![t] = [pc |-> "missed",
                      key |-> key, invoked |-> FALSE, ret |-> got[1],
                      overlap |-> busy, after_store |-> after],
              ![o] = [@ EXCEPT !.overlap = @ \/ busy]]
       /\ UNCHANGED <<cbVars, rlVars, cacheVars, synthVars, runVars, retryVars, cbConcVars, lockVars, memoVars, mainVars, ollamaVars, tdVars, sentVars, storeVars>>

\* wrapper: result = cache.get(key); if result is not None: return result.
\* The call overlaps the call of the other thread when that thread is inside
\* the wrapper for the same key; it comes after the other's store when it
\* finds the entry that thread has stored (nothing else stores the key, and a
\* cache_clear in between removes the entry).
mw_lookup(t, key) ==
    LET got == memo_get(mw_cache, key)
        o == OtherThread(t)
        busy == InCallFor(o, key)
        after == busy /\ got[1] # "None"
    IN /\ mw_thr[t].pc = "idle"
       /\ mw_cache' = got[2]
       /\ mw_thr' = [mw_thr EXCEPT
              ![t] = [pc |-> IF got[1] # "None" THEN "returned" ELSE "missed",
                      key |-> key, invoked |-> FALSE, ret |-> got[1],
                      overlap |-> busy, after_store |-> after],
              ![o] = [@ EXCEPT !.overlap = @ \/ busy]]
       /\ UNCHANGED <<cbVars, rlVars, cacheVars, synthVars, runVars, retryVars, cbConcVars, lockVars, memoVars, mainVars, ollamaVars, tdVars, sentVars, storeVars>>

\* wrapper: result = func(*args, **kwargs)
mw_invoke(t, result) ==
    /\ mw_thr[t].pc = "missed"
    /\ mw_thr' = [mw_thr EXCEPT ![t] = [@ EXCEPT !.pc = "computed",
                                                 !.invoked = TRUE,
                                                 !.ret = result]]
    /\ UNCHANGED mw_cache
    /\ UNCHANGED <<cbVars, rlVars, cacheVars, synthVars, runVars, retryVars, cbConcVars, lockVars, memoVars, mainVars, ollamaVars, tdVars, sentVars, storeVars>>

\* wrapper: if result is not None: cache.set(key, result)
mw_store(t) ==
    /\ mw_thr[t].pc = "computed"
    /\ mw_cache' = IF mw_thr[t].ret # "None"
                   THEN memo_set(mw_cache, mw_thr[t].key, mw_thr[t].ret)
                   ELSE mw_cache
    /\ mw_thr' = [mw_thr EXCEPT ![t] = [@ EXCEPT !.pc = "stored"]]
    /\ UNCHANGED <<cbVars, rlVars, cacheVars, synthVars, runVars, retryVars, cbConcVars, lockVars, memoVars, mainVars, ollamaVars, tdVars, sentVars, storeVars>>

\* wrapper: return result
mw_return(t) ==
    /\ mw_thr[t].pc = "stored"
    /\ mw_thr' = [mw_thr EXCEPT ![t] = [@ EXCEPT !.pc = "returned"]]
    /\ UNCHANGED mw_cache
    /\ UNCHANGED <<cbVars, rlVars, cacheVars, synthVars, runVars, retryVars, cbConcVars, lockVars, memoVars, mainVars, ollamaVars, tdVars, sentVars, storeVars>>

\* wrapper.cache_clear(): cache.clear() empties the cache under its lock, at
\* any moment of the two calls
mw_cache_clear ==
    /\ mw_cache' = <<>>
    /\ UNCHANGED mw_thr
    /\ UNCHANGED <<cbVars, rlVars, cacheVars, synthVars, runVars, retryVars, cbConcVars, lockVars, memoVars, mainVars, ollamaVars, tdVars, sentVars, storeVars>>

NextMemoConc ==
    \/ \E t \in Threads, key \in MemoKeys : mw_lookup(t, key)
    \/ \E t \in Threads, result \in MemoResults : mw_invoke(t, result)
    \/ \E t \in Threads : mw_store(t)
    \/ \E t \in Threads : mw_return(t)
    \/ mw_cache_clear

SpecMemoConc == Init /\ [][NextMemoConc]_vars

\* ---- Claims about the decorator called by two threads ----

\* Both threads have returned from calls for the same key that overlapped.
ConcurrentCallsDone ==
    /\ \A t \in Threads : mw_thr[t].pc = "returned" /\ mw_thr[t].overlap
    /\ mw_thr[1].key = mw_thr[2].key

\* C35 as stated: two concurrent calls with the same arguments and nothing
\* cached invoke the wrapped function exactly once and both callers receive
\* that result.
C35_InvokedOnce ==
    ConcurrentCallsDone =>
        /\ mw_thr[1].invoked # mw_thr[2].invoked
        /\ mw_thr[1].ret = mw_thr[2].ret

\* C35: of two concurrent calls with the same arguments and nothing cached,
\* a call whose lookup comes after the other call has stored a result that
\* is not None, and finds it (no cache_clear came in between), does not
\* invoke the wrapped function and receives that result; otherwise the call
\* invokes the wrapped function itself, so that the function is then invoked
\* twice.
C35_InvokedOnceOnlyAfterStore ==
    ConcurrentCallsDone =>
        \A t \in Threads :
            IF mw_thr[t].after_store
            THEN /\ ~mw_thr[t].invoked
                 /\ mw_thr[OtherThread(t)].invoked
                 /\ mw_thr[t].ret = mw_thr[OtherThread(t)].ret
            ELSE mw_thr[t].invoked

\* Two overlapping calls for the same key have both invoked the wrapped
\* function and have returned different results.
C35_Witness ==
    /\ ConcurrentCallsDone
    /\ mw_thr[1].invoked
    /\ mw_thr[2].invoked
    /\ mw_thr[1].ret = "valid"
    /\ mw_thr[2].ret = "invalid"

====
